---- MODULE Spec2Model ----
(***************************************************************************)
(* The event-scheduling and commit engine of src/protocol/lobby.py: two    *)
(* paired endpoints (Client, Lobby), each an _Endpoint with its committed  *)
(* context, active/inactive events, usage counters, external store, and    *)
(* the execution threads and messages between them.                        *)
(***************************************************************************)
EXTENDS Integers, Sequences, FiniteSets, TLC

\* ------------------------------------------------------------------ bounds
MaxCalls == 2
MaxId == 9
MaxSweeps == 1
MaxEnvHolds == 1
MaxAdmits == 3
MaxRefusals == 1
\* calls made by the application threads of SpecSweep
MaxQueued == 4

\* ------------------------------------------------------- program constants
Client == 0
Lobby == 1
EP == {Client, Lobby}
Peer(e) == 1 - e

INVALID_CONTEXT_ID == 0 - 1
DNE_PLACE_HOLDER == 0 - 1
EmptyString == 0

FUNCTION_ARGUMENT_CONTROL_RESUME_POSTPONE == 2
FUNCTION_ARGUMENT_CONTROL_FROM_MESSAGE == 4

NOT_ACCEPTED_SENTINEL == "____n_accept____"
RELEASE_EVENT_SENTINEL == "_____release_event_____"
MESSAGE_SEQUENCE_SENTINEL_FINISH == "_____msg_sequence_finish_____"
REFRESH_RECEIVE_KEY == "______REFRESH_RECEIVE_REQUEST_____"

username == "0__username"
on_began_session == "1__on_began_session"
users == "6__users"

\* the external list handed to Lobby.__init__ (users_), by its id
UsersObj == 1
OtherObj == 2

EmptyFn == [k \in {} |-> 0]
Put(f, k, v) == (k :> v) @@ f
Merge(src, dst) == src @@ dst

InitialLastIdAssigned(e) == IF e = Client THEN 0 ELSE 1
MyPriority(e) == IF e = Client THEN 0 ELSE 1
TheirPriority(e) == IF e = Client THEN 1 ELSE 0
EndpointName(e) == IF e = Client THEN "Client" ELSE "Lobby"

GlobSharedVars(e) == IF e = Client THEN {username, on_began_session}
                                   ELSE {username, users}
ExternalGlobals(e) == IF e = Client THEN {} ELSE {users}

\* prototypes of the events the exercising application adds to the two
\* generated entry points: an update of username pushed by the Lobby and a
\* local writer of username on the Client
ScenarioPrototype(name) ==
  [defGlobReads |-> {username}, defGlobWrites |-> {username},
   externalVarNames |-> {}]

\* event prototypes: definite reads, definite writes, external variable
\* names
PrototypeEvent(name) ==
  CASE name = "get_username" ->
         [defGlobReads |-> {username}, defGlobWrites |-> {username},
          externalVarNames |-> {}]
    [] name = "begin_session" ->
         [defGlobReads |-> {username, on_began_session, users},
          defGlobWrites |-> {username, users},
          externalVarNames |-> {}]
    [] name = "Lobby_onCreate" ->
         [defGlobReads |-> {}, defGlobWrites |-> {users},
          externalVarNames |-> {users}]
    [] name = "Client_onCreate" ->
         [defGlobReads |-> {}, defGlobWrites |-> {on_began_session},
          externalVarNames |-> {}]
    [] name = "_onComplete_Client_BeginSession" ->
         [defGlobReads |-> {on_began_session}, defGlobWrites |-> {},
          externalVarNames |-> {}]
    [] OTHER -> ScenarioPrototype(name)

\* the entry point a sequence's send function names for the receiver
StepOf(name) == IF name = "begin_session" THEN "Lobby_add_user"
                                          ELSE REFRESH_RECEIVE_KEY

\* the public functions of an endpoint, with the arguments they are called
\* with
Callable(e) ==
  IF e = Client
  THEN {[name |-> "get_username", arg |-> 0],
        [name |-> "begin_session", arg |-> 1]}
  ELSE {}

\* the further events the exercising application starts
Scenario(e) ==
  IF e = Client
  THEN {[name |-> "set_username", arg |-> 1]}
  ELSE {[name |-> "push_username", arg |-> 2],
        [name |-> "Lobby_onCreate", arg |-> UsersObj],
        [name |-> "Lobby_onCreate", arg |-> OtherObj]}

OnCompleteDict == {<<"Client", "BeginSession">>}
SequenceNameOf(name) == IF name = "begin_session" THEN "BeginSession"
                                                  ELSE "_refresh"

ExtObjs == {UsersObj, OtherObj}

\* ---------------------------------------------------------------- state
\* One record per endpoint holds the fields of its _Endpoint object and of
\* the objects it owns; the operations below are functions on that record.
VARIABLES
  events,              \* the _ActiveEvent objects created on the endpoint
  activeEventDict,     \* _activeEventDict: id -> (event, context)
  inactiveEvents,      \* _inactiveEvents
  globSharedReadVars,  \* _globSharedReadVars
  globSharedWriteVars, \* _globSharedWriteVars
  lastIdAssigned,      \* _lastIdAssigned
  committedContext,    \* _committedContext (shareds, endGlobals)
  contexts,            \* the _Context objects of events, by (event, id)
  externalStore,       \* _externalStore.dict: object id -> referenceCount
  reservations,        \* the reservation manager's locks
  externalObjects,     \* the external objects' contents
  threads,             \* running _ExecuteActiveEventThread objects
  toExecute,           \* admitted events whose _executeActive has not run
  checkNext,           \* started _NextEventLoader threads not yet run
  callers,             \* application threads blocked on a returnQueue
  assertFailed,        \* the fail-fast assertions that have fired
  storeLocked,         \* _externalStore._mutex is held, with no thread to release it
  msgs,                \* messages written to the connection, per receiver
  calls,               \* number of external calls made so far
  envHolds,            \* objects locked by other users of the external objects
  mutex,               \* _mutex: the thread inside a _lock() .. _unlock() region
  log                  \* what the last step did (observation only)

vars == <<events, activeEventDict, inactiveEvents, globSharedReadVars,
          globSharedWriteVars, lastIdAssigned, committedContext, contexts,
          externalStore, reservations, externalObjects, threads, toExecute,
          checkNext, callers, assertFailed, storeLocked, msgs, calls, envHolds,
          mutex, log>>

\* the endpoint mutex held by no thread
Free == [kind |-> "free", ev |-> 0, ctx |-> <<0, 0>>]

St(e) ==
  [self |-> e,
   events |-> events[e],
   activeEventDict |-> activeEventDict[e],
   inactiveEvents |-> inactiveEvents[e],
   globSharedReadVars |-> globSharedReadVars[e],
   globSharedWriteVars |-> globSharedWriteVars[e],
   lastIdAssigned |-> lastIdAssigned[e],
   committedContext |-> committedContext[e],
   contexts |-> contexts[e],
   externalStore |-> externalStore[e],
   reservations |-> reservations[e],
   externalObjects |-> externalObjects[e],
   threads |-> threads[e],
   toExecute |-> toExecute[e],
   checkNext |-> checkNext[e],
   callers |-> callers[e],
   assertFailed |-> assertFailed[e],
   storeLocked |-> storeLocked[e],
   mutex |-> mutex[e],
   out |-> <<>>,
   log |-> <<>>]

\* the footprint of an event object
Reads(ev) == PrototypeEvent(ev.name).defGlobReads
Writes(ev) == PrototypeEvent(ev.name).defGlobWrites
Footprint(ev) == Reads(ev) \cup Writes(ev)

Note(S, what) ==
  [S EXCEPT !.log = Append(@, [ep |-> S.self, op |-> what.op,
                               ev |-> what.ev, id |-> what.id])]

\* ---------------------------------------------------- _ExternalStore
\* the assertions are raised between _lock() and _unlock(), the second
\* one after the count has been stored
ChangeRefCountById(S, extId, howMuch) ==
  IF extId \notin DOMAIN S.externalStore
  THEN [S EXCEPT !.assertFailed = @ \cup {"changeRefCountById: unknown"},
                 !.storeLocked = TRUE]
  ELSE LET S1 == [S EXCEPT !.externalStore[extId] = @ + howMuch]
       IN IF S1.externalStore[extId] < 0
          THEN [S1 EXCEPT !.assertFailed =
                            @ \cup {"changeRefCountById: negative"},
                          !.storeLocked = TRUE]
          ELSE S1

IncrementRefCountAddIfNoExist(S, extId) ==
  LET S1 == IF extId \in DOMAIN S.externalStore THEN S
            ELSE [S EXCEPT !.externalStore = Put(@, extId, 0)]
  IN ChangeRefCountById(S1, extId, 1)

\* variant: entries whose count is 1 are collected as well
GcCheckSmallRefCounts(S) ==
  LET keep == {k \in DOMAIN S.externalStore : S.externalStore[k] > 1}
  IN [S EXCEPT !.externalStore = [k \in keep |-> S.externalStore[k]]]

GcCheckEmptyRefCounts(S) ==
  LET keep == {k \in DOMAIN S.externalStore : S.externalStore[k] # 0}
  IN [S EXCEPT !.externalStore = [k \in keep |-> S.externalStore[k]]]

\* ------------------------------------------- reservation manager, objects
\* acquire(readIds, writeIds): all-or-nothing; read locks shared, write
\* locks exclusive
CanAcquire(rm, readIds, writeIds) ==
  /\ \A o \in writeIds : rm[o].r = 0 /\ rm[o].w = 0
  /\ \A o \in readIds : rm[o].w = 0

Acquire(rm, readIds, writeIds) ==
  [o \in DOMAIN rm |->
     [r |-> rm[o].r + (IF o \in readIds THEN 1 ELSE 0),
      w |-> rm[o].w + (IF o \in writeIds THEN 1 ELSE 0)]]

Release(rm, readIds, writeIds) ==
  [o \in DOMAIN rm |->
     [r |-> rm[o].r - (IF o \in readIds THEN 1 ELSE 0),
      w |-> rm[o].w - (IF o \in writeIds THEN 1 ELSE 0)]]

\* an external object keeps the value last committed and the working value
ObjCommit(objs, written) ==
  [o \in DOMAIN objs |->
     IF o \in written THEN [objs[o] EXCEPT !.committed = objs[o].val]
     ELSE objs[o]]

ObjBackout(objs, written) ==
  [o \in DOMAIN objs |->
     IF o \in written THEN [objs[o] EXCEPT !.val = objs[o].committed]
     ELSE objs[o]]

\* --------------------------------------------------------------- _Context
NewContext(contextId) ==
  [id |-> contextId,
   shareds |-> EmptyFn,
   endGlobals |-> EmptyFn,
   seqGlobals |-> EmptyFn,
   messageSent |-> FALSE,
   msgReceivedQueue |-> <<>>,
   onCompletesToFire |-> 0,
   onCompletesFired |-> 0,
   writtenToExternalsOnThisEndpoint |-> {},
   refCounts |-> EmptyFn,
   heldExternalReferences |-> <<>>]

\* variant: every variable of the committed context is copied
CopyAllForActiveEvent(committed, ev, contextId) ==
  [NewContext(contextId) EXCEPT
     !.shareds = committed.shareds,
     !.endGlobals = [k \in DOMAIN committed.endGlobals \ DOMAIN committed.shareds
                       |-> committed.endGlobals[k]]]

CopyForActiveEvent(committed, ev, contextId) ==
  LET keys == Footprint(ev)
      inShareds == {k \in keys : k \in DOMAIN committed.shareds}
      rest == keys \ inShareds
  IN [NewContext(contextId) EXCEPT
        !.shareds = [k \in inShareds |-> committed.shareds[k]],
        !.endGlobals =
           [k \in rest |-> IF k \in DOMAIN committed.endGlobals
                           THEN committed.endGlobals[k]
                           ELSE DNE_PLACE_HOLDER]]

MergeContextIntoMe(committed, ctx) ==
  [shareds |-> Merge(ctx.shareds, committed.shareds),
   endGlobals |-> Merge(ctx.endGlobals, committed.endGlobals)]

FilterDoesNotExist(endGlobals) ==
  {k \in DOMAIN endGlobals : endGlobals[k] = DNE_PLACE_HOLDER}

\* variant: the endpoint-globals of the context are sent as well
GenerateWithEndGlobals(ctx) ==
  [dnes |-> FilterDoesNotExist(ctx.endGlobals),
   shareds |-> ctx.shareds,
   endGlobals |-> ctx.endGlobals,
   seqGlobals |-> ctx.seqGlobals]

GenerateEnvironmentData(ctx) ==
  [dnes |-> FilterDoesNotExist(ctx.endGlobals),
   shareds |-> ctx.shareds,
   endGlobals |-> EmptyFn,
   seqGlobals |-> ctx.seqGlobals]

\* variant: the shareds of the message are not copied into the context
UpdateWithoutShareds(ctx, data) ==
  LET copied == {k \in DOMAIN data.endGlobals : k \notin data.dnes}
  IN [ctx EXCEPT
        !.endGlobals = Merge([k \in copied |-> data.endGlobals[k]], @),
        !.seqGlobals = Merge(data.seqGlobals, @)]

UpdateEnvironmentData(ctx, data) ==
  LET copied == {k \in DOMAIN data.endGlobals : k \notin data.dnes}
  IN [ctx EXCEPT
        !.shareds = Merge(data.shareds, @),
        !.endGlobals = Merge([k \in copied |-> data.endGlobals[k]], @),
        !.seqGlobals = Merge(data.seqGlobals, @)]

RECURSIVE HoldExternalReferences(_, _, _)
HoldExternalReferences(S, key, names) ==
  IF names = {} THEN S
  ELSE LET n == CHOOSE x \in names : TRUE
           externalId == S.contexts[key].endGlobals[n]
           S1 == IF externalId = DNE_PLACE_HOLDER THEN S
                 ELSE [ChangeRefCountById(S, externalId, 1) EXCEPT
                         !.contexts[key].heldExternalReferences =
                            Append(@, externalId)]
       IN HoldExternalReferences(S1, key, names \ {n})

\* variant: the references held are not given back
KeepHeldReferences(S, key) == S

RECURSIVE UnholdExternalReferences(_, _)
UnholdExternalReferences(S, key) ==
  LET held == S.contexts[key].heldExternalReferences
  IN IF held = <<>> THEN S
     ELSE UnholdExternalReferences(
            [ChangeRefCountById(S, Head(held), 0 - 1) EXCEPT
               !.contexts[key].heldExternalReferences = Tail(held)], key)

RECURSIVE ApplyRefCounts(_, _, _)
ApplyRefCounts(S, refCounts, keys) ==
  IF keys = {} THEN S
  ELSE LET k == CHOOSE x \in keys : TRUE
       IN ApplyRefCounts(ChangeRefCountById(S, k, refCounts[k]),
                         refCounts, keys \ {k})

\* variant: the context's reference-count changes are applied twice
ContextCommitTwice(S, key) ==
  UnholdExternalReferences(
    ApplyRefCounts(
      ApplyRefCounts(S, S.contexts[key].refCounts,
                     DOMAIN S.contexts[key].refCounts),
      S.contexts[key].refCounts, DOMAIN S.contexts[key].refCounts), key)

ContextCommit(S, key) ==
  UnholdExternalReferences(
    ApplyRefCounts(S, S.contexts[key].refCounts,
                   DOMAIN S.contexts[key].refCounts), key)

BackoutExternalChanges(S, key) ==
  UnholdExternalReferences(
    [S EXCEPT !.externalObjects =
       ObjBackout(@, S.contexts[key].writtenToExternalsOnThisEndpoint)], key)

\* variant: the context id is put on the queue twice
SignalTwice(S, key, contextId, onComplete) ==
  [S EXCEPT !.contexts[key].msgReceivedQueue = Append(Append(@, contextId),
                                                      contextId),
            !.contexts[key].onCompletesToFire =
               @ + (IF onComplete THEN 1 ELSE 0)]

SignalMessageSequenceComplete(S, key, contextId, onComplete) ==
  [S EXCEPT !.contexts[key].msgReceivedQueue = Append(@, contextId),
            !.contexts[key].onCompletesToFire =
               @ + (IF onComplete THEN 1 ELSE 0)]

\* variant: the postponed context is signalled with its own id, as a
\* finished sequence would be
ContextPostponeAsFinished(S, key) ==
  SignalMessageSequenceComplete(S, key, S.contexts[key].id, FALSE)

ContextPostpone(S, key) ==
  SignalMessageSequenceComplete(S, key, INVALID_CONTEXT_ID, FALSE)

\* ----------------------------------------------------------- _ActiveEvent
\* variant: the counter advances by one
GetNextIdByOne(S) == [S EXCEPT !.lastIdAssigned = @ + 1]

GetNextActiveEventIdToAssign(S) ==
  [S EXCEPT !.lastIdAssigned = @ + 2]

IInitiated(S, actEventId) == (actEventId % 2) = (S.lastIdAssigned % 2)

\* _Event.generateActiveEvent / _ActiveEvent.__init__: the new object is
\* the last element of S.events
GenerateActiveEvent(S, name, arg) ==
  LET S1 == GetNextActiveEventIdToAssign(S)
  IN [S1 EXCEPT !.events = Append(@,
        [name |-> name, id |-> S1.lastIdAssigned, contextId |-> 0,
         active |-> FALSE, toExecFrom |-> "", arg |-> arg,
         extsToRead |-> {}, extsToWrite |-> {}, returnQueue |-> 0])]

Conflicts(a, b) ==
  \/ \E w \in Writes(a) : w \in Writes(b) \/ w \in Reads(b)
  \/ \E w \in Writes(b) : w \in Writes(a) \/ w \in Reads(a)

Decrement(counters, keys) ==
  [k \in DOMAIN counters |->
     IF k \in keys THEN counters[k] - 1 ELSE counters[k]]

Increment(counters, keys) ==
  [k \in DOMAIN counters |->
     IF k \in keys THEN counters[k] + 1 ELSE counters[k]]

\* variant: only the read counters are given back
CancelReadsOnly(S, i) ==
  LET ev == S.events[i]
      rest == DOMAIN S.activeEventDict \ {ev.id}
  IN [S EXCEPT
        !.activeEventDict = [k \in rest |-> S.activeEventDict[k]],
        !.globSharedReadVars = Decrement(@, Reads(ev))]

CancelActiveEvent(S, i) ==
  LET ev == S.events[i]
      rest == DOMAIN S.activeEventDict \ {ev.id}
  IN [S EXCEPT
        !.activeEventDict = [k \in rest |-> S.activeEventDict[k]],
        !.globSharedReadVars = Decrement(@, Reads(ev)),
        !.globSharedWriteVars = Decrement(@, Writes(ev))]

\* variant: the postponed event is put at the end of the inactive list
EventPostponeAtTail(S, i, key) ==
  LET S1 == CancelActiveEvent(S, i)
      S2 == [S1 EXCEPT !.events[i].active = FALSE,
                       !.events[i].contextId = @ + 1,
                       !.inactiveEvents = Append(@, i)]
  IN Note(ContextPostpone(S2, key),
          [op |-> "postpone", ev |-> i, id |-> S.events[i].id])

\* variant: the postponement leaves the generation of the event as it is
PostponeSameGeneration(S, i, key) ==
  LET S1 == CancelActiveEvent(S, i)
      S2 == [S1 EXCEPT !.events[i].active = FALSE,
                       !.inactiveEvents = <<i>> \o @]
  IN Note(ContextPostpone(S2, key),
          [op |-> "postpone", ev |-> i, id |-> S.events[i].id])

EventPostpone(S, i, key) ==
  LET S1 == CancelActiveEvent(S, i)
      S2 == [S1 EXCEPT !.events[i].active = FALSE,
                       !.events[i].contextId = @ + 1,
                       !.inactiveEvents = <<i>> \o @]
  IN Note(ContextPostpone(S2, key),
          [op |-> "postpone", ev |-> i, id |-> S.events[i].id])

\* variant: a postponed event's context is merged into the committed one
PostponeAndMerge(S, activeEventId) ==
  IF activeEventId \notin DOMAIN S.activeEventDict THEN S
  ELSE LET key == S.activeEventDict[activeEventId].ctx
       IN EventPostpone([S EXCEPT !.committedContext =
                            MergeContextIntoMe(@, S.contexts[key])],
                        S.activeEventDict[activeEventId].ev, key)

\* variant: when the event named is not active, another one is postponed
PostponeSomeEvent(S, activeEventId) ==
  LET id == IF activeEventId \in DOMAIN S.activeEventDict
               \/ DOMAIN S.activeEventDict = {}
            THEN activeEventId
            ELSE CHOOSE x \in DOMAIN S.activeEventDict : TRUE
  IN IF id \notin DOMAIN S.activeEventDict THEN S
     ELSE EventPostpone(S, S.activeEventDict[id].ev,
                        S.activeEventDict[id].ctx)

PostponeActiveEvent(S, activeEventId) ==
  IF activeEventId \notin DOMAIN S.activeEventDict THEN S
  ELSE EventPostpone(S, S.activeEventDict[activeEventId].ev,
                     S.activeEventDict[activeEventId].ctx)

\* variant: every active event is postponed, conflicting or not
RECURSIVE PostponeAllEvents(_, _, _)
PostponeAllEvents(S, i, keys) ==
  IF keys = {} THEN S
  ELSE LET k == CHOOSE x \in keys : \A y \in keys : x <= y
       IN PostponeAllEvents(PostponeActiveEvent(S, k), i, keys \ {k})

RECURSIVE PostponeConflictingEvents(_, _, _)
PostponeConflictingEvents(S, i, keys) ==
  IF keys = {} THEN S
  ELSE LET k == CHOOSE x \in keys : \A y \in keys : x <= y
           other == S.events[S.activeEventDict[k].ev]
           S1 == IF Conflicts(S.events[i], other)
                 THEN PostponeActiveEvent(S, k) ELSE S
       IN PostponeConflictingEvents(S1, i, keys \ {k})

\* variant: the counters are compared with one instead of zero
CountersAllowOne(S, ev) ==
  /\ \A k \in Reads(ev) :
       ~(k \in DOMAIN S.globSharedWriteVars /\ S.globSharedWriteVars[k] > 1)
  /\ \A k \in Writes(ev) :
       ~(\/ (k \in DOMAIN S.globSharedWriteVars
              /\ S.globSharedWriteVars[k] > 1)
         \/ (k \in DOMAIN S.globSharedReadVars
              /\ S.globSharedReadVars[k] > 1))

\* variant: the loop over the event's writes looks at the writers only
CountersAllowWriters(S, ev) ==
  /\ \A k \in Reads(ev) :
       ~(k \in DOMAIN S.globSharedWriteVars /\ S.globSharedWriteVars[k] > 0)
  /\ \A k \in Writes(ev) :
       ~(k \in DOMAIN S.globSharedWriteVars /\ S.globSharedWriteVars[k] > 0)

\* the non-forced conflict check on the usage counters
CountersAllow(S, ev) ==
  /\ \A k \in Reads(ev) :
       ~(k \in DOMAIN S.globSharedWriteVars /\ S.globSharedWriteVars[k] > 0)
  /\ \A k \in Writes(ev) :
       ~(\/ (k \in DOMAIN S.globSharedWriteVars
              /\ S.globSharedWriteVars[k] > 0)
         \/ (k \in DOMAIN S.globSharedReadVars
              /\ S.globSharedReadVars[k] > 0))

IsExternalVarId(S, varId) == varId \in ExternalGlobals(S.self)

ExternalsOf(S, keys) ==
  {S.committedContext.endGlobals[k] :
     k \in {x \in keys : /\ IsExternalVarId(S, x)
                         /\ x \in DOMAIN S.committedContext.endGlobals
                         /\ S.committedContext.endGlobals[x]
                              # DNE_PLACE_HOLDER}}

\* addEventToEndpointIfCan, in the order of its code: the result is the
\* endpoint's state, whether the event was added, and the context it got
Refused(S, i) ==
  [S |-> Note(S, [op |-> "denied", ev |-> i, id |-> S.events[i].id]),
   added |-> FALSE, ctx |-> <<>>]

Granted(S, i, key) ==
  [S |-> Note(S, [op |-> "admitted", ev |-> i, id |-> S.events[i].id]),
   added |-> TRUE, ctx |-> key]

\* counters, fresh context, registration, holds on the externals
RegisterEvent(S, i, key) ==
  HoldExternalReferences(
    [S EXCEPT
       !.globSharedReadVars = Increment(@, Reads(S.events[i])),
       !.globSharedWriteVars = Increment(@, Writes(S.events[i])),
       !.events[i].contextId = key[2],
       !.events[i].active = TRUE,
       !.contexts = Put(@, key,
          CopyForActiveEvent(S.committedContext, S.events[i], key[2])),
       !.activeEventDict = Put(@, S.events[i].id, [ev |-> i, ctx |-> key])],
    key, PrototypeEvent(S.events[i].name).externalVarNames)

\* variant: the usage counters are raised before the reservation is asked
\* for, and stay raised when it is refused
ReserveAfterCounting(S, i, extsToRead, extsToWrite) ==
  IF extsToRead = {} /\ extsToWrite = {}
  THEN Granted(RegisterEvent(S, i, <<i, S.events[i].contextId + 1>>),
               i, <<i, S.events[i].contextId + 1>>)
  ELSE IF ~CanAcquire(S.reservations, extsToRead, extsToWrite)
  THEN Refused([S EXCEPT
                  !.globSharedReadVars = Increment(@, Reads(S.events[i])),
                  !.globSharedWriteVars = Increment(@, Writes(S.events[i]))],
               i)
  ELSE Granted(
         RegisterEvent(
           [S EXCEPT !.reservations = Acquire(@, extsToRead, extsToWrite)],
           i, <<i, S.events[i].contextId + 1>>),
         i, <<i, S.events[i].contextId + 1>>)

\* the reservation of the external objects the event reads and writes
ReserveExternals(S, i, extsToRead, extsToWrite) ==
  IF extsToRead = {} /\ extsToWrite = {}
  THEN Granted(RegisterEvent(S, i, <<i, S.events[i].contextId + 1>>),
               i, <<i, S.events[i].contextId + 1>>)
  ELSE IF ~CanAcquire(S.reservations, extsToRead, extsToWrite)
  THEN Refused(S, i)
  ELSE Granted(
         RegisterEvent(
           [S EXCEPT !.reservations = Acquire(@, extsToRead, extsToWrite)],
           i, <<i, S.events[i].contextId + 1>>),
         i, <<i, S.events[i].contextId + 1>>)

GatherExternals(S, i, extsToRead, extsToWrite) ==
  ReserveExternals([S EXCEPT !.events[i].extsToRead = extsToRead,
                             !.events[i].extsToWrite = extsToWrite],
                   i, extsToRead, extsToWrite)

\* variant: with force the event is registered without asking for the
\* reservation
CheckConflictsForceAll(S, i, force) ==
  IF force
  THEN LET Sb == PostponeConflictingEvents(S, i, DOMAIN S.activeEventDict)
       IN Granted(RegisterEvent(Sb, i, <<i, Sb.events[i].contextId + 1>>),
                  i, <<i, Sb.events[i].contextId + 1>>)
  ELSE IF ~CountersAllow(S, S.events[i])
  THEN Refused(S, i)
  ELSE GatherExternals(S, i, ExternalsOf(S, Reads(S.events[i])),
                       ExternalsOf(S, Writes(S.events[i])))

CheckConflicts(S, i, force) ==
  IF force
  THEN LET Sb == PostponeConflictingEvents(S, i, DOMAIN S.activeEventDict)
       IN GatherExternals(Sb, i, ExternalsOf(Sb, Reads(S.events[i])),
                          ExternalsOf(Sb, Writes(S.events[i])))
  ELSE IF ~CountersAllow(S, S.events[i])
  THEN Refused(S, i)
  ELSE GatherExternals(S, i, ExternalsOf(S, Reads(S.events[i])),
                       ExternalsOf(S, Writes(S.events[i])))

\* variant: an attempt keeps the id the event already has
KeepId(S, i) == S

AssignNewId(S, i) ==
  LET S1 == GetNextActiveEventIdToAssign(S)
  IN [S1 EXCEPT !.events[i].id = S1.lastIdAssigned]

AddEventToEndpointIfCan(S, i, force, newId) ==
  IF newId THEN CheckConflicts(AssignNewId(S, i), i, force)
  ELSE CheckConflicts(S, i, force)

\* -------------------------------------------------------------- _Endpoint
\* variant: the context is committed but not merged into the committed one
CommitWithoutMerge(S, i, key) ==
  LET ev == S.events[i]
      written == S.contexts[key].writtenToExternalsOnThisEndpoint
      S1 == [S EXCEPT
               !.reservations = Release(@, ev.extsToRead, ev.extsToWrite),
               !.externalObjects = ObjCommit(@, written)]
  IN Note(CancelActiveEvent(ContextCommit(S1, key), i),
          [op |-> "commit", ev |-> i, id |-> ev.id])

CommitActiveEvent(S, i, key) ==
  LET ev == S.events[i]
      written == S.contexts[key].writtenToExternalsOnThisEndpoint
      S1 == [S EXCEPT
               !.reservations = Release(@, ev.extsToRead, ev.extsToWrite),
               !.externalObjects = ObjCommit(@, written)]
      S2 == ContextCommit(S1, key)
      S3 == [S2 EXCEPT !.committedContext =
                          MergeContextIntoMe(@, S2.contexts[key])]
  IN Note(CancelActiveEvent(S3, i),
          [op |-> "commit", ev |-> i, id |-> ev.id])

ExecuteActive(S, i, key, callType) ==
  [S EXCEPT !.toExecute = @ \cup {[ev |-> i, ctx |-> key,
                                   callType |-> callType]}]

WriteMsg(S, m) == [S EXCEPT !.out = Append(@, m)]

EndpointMsg(ctx, ev, controlMsg, sequenceName) ==
  [control |-> controlMsg, eventId |-> ev.id, eventName |-> ev.name,
   sequenceName |-> sequenceName, context |-> GenerateEnvironmentData(ctx)]

EventNotAcceptedMsg(eventId) ==
  [control |-> NOT_ACCEPTED_SENTINEL, eventId |-> eventId, eventName |-> "",
   sequenceName |-> "", context |-> GenerateEnvironmentData(NewContext(0))]

EventReleaseMsg(ctx, ev) ==
  EndpointMsg(ctx, ev, RELEASE_EVENT_SENTINEL, "@#@#@#")

TryNextEvent(S) == [S EXCEPT !.checkNext = @ + 1]

\* variant: the retries of the sweep are made with force
RECURSIVE CheckNextLoopForced(_, _, _)
CheckNextLoopForced(S, idx, counter) ==
  IF idx > Len(S.inactiveEvents) THEN S
  ELSE LET i == S.inactiveEvents[idx]
       IN IF S.events[i].active THEN CheckNextLoopForced(S, idx + 1, counter)
          ELSE LET r == AddEventToEndpointIfCan(S, i, TRUE, TRUE)
               IN IF r.added
                  THEN LET S1 == ExecuteActive(r.S, i, r.ctx,
                                   FUNCTION_ARGUMENT_CONTROL_RESUME_POSTPONE)
                           L == S1.inactiveEvents
                       IN CheckNextLoopForced(
                            [S1 EXCEPT !.inactiveEvents =
                               SubSeq(L, 1, counter)
                                 \o SubSeq(L, counter + 2, Len(L))],
                            idx + 1, counter)
                  ELSE CheckNextLoopForced(r.S, idx + 1, counter + 1)

\* _checkNextEvent: the loop walks the list by position (idx) while the
\* admitted events are deleted at position counter
RECURSIVE CheckNextLoop(_, _, _)
CheckNextLoop(S, idx, counter) ==
  IF idx > Len(S.inactiveEvents) THEN S
  ELSE LET i == S.inactiveEvents[idx]
       IN IF S.events[i].active THEN CheckNextLoop(S, idx + 1, counter)
          ELSE LET r == AddEventToEndpointIfCan(S, i, FALSE, TRUE)
               IN IF r.added
                  THEN LET S1 == ExecuteActive(r.S, i, r.ctx,
                                   FUNCTION_ARGUMENT_CONTROL_RESUME_POSTPONE)
                           L == S1.inactiveEvents
                       IN CheckNextLoop(
                            [S1 EXCEPT !.inactiveEvents =
                               SubSeq(L, 1, counter)
                                 \o SubSeq(L, counter + 2, Len(L))],
                            idx + 1, counter)
                  ELSE CheckNextLoop(r.S, idx + 1, counter + 1)

CheckNextEvent(S) == CheckNextLoop(S, 1, 0)

\* ------------------------------------------------ _ActiveEvent.setCompleted
\* an execution thread moves to its next step, or ends
Goto(S, t, pc) ==
  [S EXCEPT !.threads = (@ \ {t}) \cup {[t EXCEPT !.pc = pc]}]

Finish(S, t) == [S EXCEPT !.threads = @ \ {t}]

Stale(S, t) == S.contexts[t.ctx].id # S.events[t.ev].contextId

\* variant: the context's generation is not compared before the commit
\* _Context.fireOnCompletes: an _OnComplete thread is started for every
\* entry of onCompletesToFire
FireOnCompletes(S, key) ==
  IF S.contexts[key].onCompletesToFire = 0 THEN S
  ELSE Note([S EXCEPT !.contexts[key].onCompletesFired =
                         @ + S.contexts[key].onCompletesToFire],
            [op |-> "fire", ev |-> key[1], id |-> key[2]])

SetCompletedUnchecked(S, t) ==
  LET S1 == CommitActiveEvent(
              [S EXCEPT !.events[t.ev].returnQueue = @ + 1], t.ev, t.ctx)
  IN IF S.contexts[t.ctx].messageSent THEN Goto(S1, t, "release")
     ELSE Finish(FireOnCompletes(S1, t.ctx), t)

\* a stale context raises _PostponeException; otherwise the result is put
\* on the returnQueue and the context committed, and the thread goes on to
\* write the release message if the context sent a message
\* variant: the release message is sent whatever the context's flag says
SetCompletedAlwaysRelease(S, t) ==
  IF Stale(S, t)
  THEN Note(Goto(S, t, "postponed"),
            [op |-> "cancelled", ev |-> t.ev, id |-> S.events[t.ev].id])
  ELSE Goto(CommitActiveEvent(
              [S EXCEPT !.events[t.ev].returnQueue = @ + 1], t.ev, t.ctx),
            t, "release")

SetCompleted(S, t) ==
  IF Stale(S, t)
  THEN Note(Goto(S, t, "postponed"),
            [op |-> "cancelled", ev |-> t.ev, id |-> S.events[t.ev].id])
  ELSE LET S1 == CommitActiveEvent(
                   [S EXCEPT !.events[t.ev].returnQueue = @ + 1], t.ev, t.ctx)
       IN IF S.contexts[t.ctx].messageSent THEN Goto(S1, t, "release")
          ELSE Finish(FireOnCompletes(S1, t.ctx), t)

\* --------------------------------------------------- message reception
ProcessReleaseEventSentinel(S, m) ==
  IF m.eventId \notin DOMAIN S.activeEventDict
  THEN [S EXCEPT !.assertFailed = @ \cup {"_processReleaseEventSentinel"}]
  ELSE LET el == S.activeEventDict[m.eventId]
           S1 == [S EXCEPT !.contexts[el.ctx] =
                              UpdateEnvironmentData(@, m.context)]
       IN TryNextEvent(FireOnCompletes(
                         CommitActiveEvent(S1, el.ev, el.ctx), el.ctx))

ProcessSequenceSentinelFinished(S, m) ==
  LET onComplete ==
        <<EndpointName(S.self), m.sequenceName>> \in OnCompleteDict
  IN IF ~IInitiated(S, m.eventId)
     THEN IF ~onComplete THEN S
          ELSE IF m.eventId \notin DOMAIN S.activeEventDict
               THEN [S EXCEPT !.assertFailed =
                       @ \cup {"_processSequenceSentinelFinished: None"}]
               ELSE [S EXCEPT
                       !.contexts[S.activeEventDict[m.eventId].ctx]
                          .onCompletesToFire = @ + 1]
     ELSE IF m.eventId \notin DOMAIN S.activeEventDict
          THEN [S EXCEPT !.assertFailed =
                  @ \cup {"_processSequenceSentinelFinished"}]
          ELSE LET key == S.activeEventDict[m.eventId].ctx
                   S1 == [S EXCEPT !.contexts[key] =
                             UpdateEnvironmentData(@, m.context)]
               IN SignalMessageSequenceComplete(
                    S1, key, S1.contexts[key].id, onComplete)

\* variant: no endpoint forces the other's events in
NeverForce(e) == FALSE

\* variant: every endpoint forces the other's events in
AlwaysForce(e) == TRUE

ForceAddition(e) == MyPriority(e) < TheirPriority(e)

ProcessStep(S, m) ==
  IF m.eventId \in DOMAIN S.activeEventDict
  THEN LET el == S.activeEventDict[m.eventId]
           S1 == [S EXCEPT !.events[el.ev].toExecFrom = m.control,
                           !.contexts[el.ctx] =
                              UpdateEnvironmentData(@, m.context)]
       IN ExecuteActive(S1, el.ev, el.ctx,
                        FUNCTION_ARGUMENT_CONTROL_FROM_MESSAGE)
  ELSE IF IInitiated(S, m.eventId)
  THEN [S EXCEPT !.assertFailed = @ \cup {"_msgReceive: I initiated"}]
  ELSE LET S1 == GenerateActiveEvent(S, m.eventName, 0)
           i == Len(S1.events)
           S2 == [S1 EXCEPT !.events[i].id = m.eventId]
           r == AddEventToEndpointIfCan(S2, i, ForceAddition(S.self), FALSE)
       IN IF ~r.added
          THEN WriteMsg(r.S, EventNotAcceptedMsg(m.eventId))
          ELSE ExecuteActive(
                 [r.S EXCEPT !.events[i].toExecFrom = m.control,
                             !.contexts[r.ctx] =
                                UpdateEnvironmentData(@, m.context)],
                 i, r.ctx, FUNCTION_ARGUMENT_CONTROL_FROM_MESSAGE)

MsgReceiveOp(S, m) ==
  IF m.control = NOT_ACCEPTED_SENTINEL
  THEN TryNextEvent(PostponeActiveEvent(S, m.eventId))
  ELSE IF m.control = RELEASE_EVENT_SENTINEL
  THEN ProcessReleaseEventSentinel(S, m)
  ELSE IF m.control = MESSAGE_SEQUENCE_SENTINEL_FINISH
  THEN ProcessSequenceSentinelFinished(S, m)
  ELSE ProcessStep(S, m)

\* ------------------------------------------------------------ transitions
Install(e, S) ==
  /\ events' = [events EXCEPT ![e] = S.events]
  /\ activeEventDict' = [activeEventDict EXCEPT ![e] = S.activeEventDict]
  /\ inactiveEvents' = [inactiveEvents EXCEPT ![e] = S.inactiveEvents]
  /\ globSharedReadVars' =
       [globSharedReadVars EXCEPT ![e] = S.globSharedReadVars]
  /\ globSharedWriteVars' =
       [globSharedWriteVars EXCEPT ![e] = S.globSharedWriteVars]
  /\ lastIdAssigned' = [lastIdAssigned EXCEPT ![e] = S.lastIdAssigned]
  /\ committedContext' = [committedContext EXCEPT ![e] = S.committedContext]
  /\ contexts' = [contexts EXCEPT ![e] = S.contexts]
  /\ externalStore' = [externalStore EXCEPT ![e] = S.externalStore]
  /\ reservations' = [reservations EXCEPT ![e] = S.reservations]
  /\ externalObjects' = [externalObjects EXCEPT ![e] = S.externalObjects]
  /\ threads' = [threads EXCEPT ![e] = S.threads]
  /\ toExecute' = [toExecute EXCEPT ![e] = S.toExecute]
  /\ checkNext' = [checkNext EXCEPT ![e] = S.checkNext]
  /\ callers' = [callers EXCEPT ![e] = S.callers]
  /\ assertFailed' = [assertFailed EXCEPT ![e] = S.assertFailed]
  /\ storeLocked' = [storeLocked EXCEPT ![e] = S.storeLocked]
  /\ mutex' = [mutex EXCEPT ![e] = S.mutex]
  /\ log' = S.log

Send(e, S) == msgs' = [msgs EXCEPT ![Peer(e)] = @ \o S.out]

\* the generated external entry point (FIRST_FROM_EXTERNAL): create the
\* event, admit it or queue it, then block on its returnQueue
ExternalCallOp(S, c) ==
  LET S0 == IF c.name = "Lobby_onCreate"
            THEN IncrementRefCountAddIfNoExist(S, c.arg) ELSE S
      S1 == GenerateActiveEvent(S0, c.name, c.arg)
      i == Len(S1.events)
      S2 == [S1 EXCEPT !.events[i].toExecFrom = c.name]
      r == AddEventToEndpointIfCan(S2, i, FALSE, FALSE)
      S3 == IF r.added
            THEN ExecuteActive(r.S, i, r.ctx,
                               FUNCTION_ARGUMENT_CONTROL_RESUME_POSTPONE)
            ELSE [r.S EXCEPT !.inactiveEvents = Append(@, i)]
  IN [S3 EXCEPT !.callers = @ \cup {i}]

ExternalCall(e) ==
  /\ calls < MaxCalls
  /\ lastIdAssigned[e] + 2 <= MaxId
  /\ \E c \in Callable(e) \cup Scenario(e) :
       /\ Install(e, Note(ExternalCallOp(St(e), c),
                          [op |-> "call", ev |-> Len(events[e]) + 1, id |-> 0]))
       /\ calls' = calls + 1
  /\ UNCHANGED <<msgs, envHolds>>

\* the caller unblocks: it takes the result, starts a _NextEventLoader and
\* an _ExtInterfaceCleanup
CallerReturn(e) ==
  \E i \in callers[e] :
    /\ events[e][i].returnQueue > 0
    /\ checkNext[e] < MaxSweeps
    /\ LET S == St(e)
           S1 == [S EXCEPT !.events[i].returnQueue = @ - 1,
                           !.callers = @ \ {i}]
           S2 == TryNextEvent(S1)
           S3 == IF S.events[i].name = "Lobby_onCreate"
                 THEN ChangeRefCountById(S2, S.events[i].arg, 0 - 1)
                 ELSE S2
       IN Install(e, Note(GcCheckEmptyRefCounts(S3),
                          [op |-> "return", ev |-> i, id |-> 0]))
    /\ UNCHANGED <<msgs, calls, envHolds>>

DoExecuteActive(e) ==
  \E d \in toExecute[e] :
    /\ LET S == St(e)
           S1 == [S EXCEPT !.toExecute = @ \ {d}]
       IN Install(e,
            IF S.events[d.ev].id \in DOMAIN S.activeEventDict
            THEN [S1 EXCEPT !.threads = @ \cup
                    {[ev |-> d.ev, ctx |-> d.ctx, callType |-> d.callType,
                      pc |-> "exec"]}]
            ELSE S1)
    /\ UNCHANGED <<msgs, calls, envHolds>>

ExecuteInternal(e) ==
  \E t \in threads[e] :
    /\ t.pc = "exec"
    /\ Install(e, IF Stale(St(e), t) THEN Finish(St(e), t)
                  ELSE Goto(St(e), t, "body"))
    /\ UNCHANGED <<msgs, calls, envHolds>>

ToExecFrom(e, t) == events[e][t.ev].toExecFrom

\* Client._get_username: the body reads the shared variable and returns it
LocalBody(e) ==
  \E t \in threads[e] :
    /\ t.pc = "body"
    /\ ToExecFrom(e, t) = "get_username"
    /\ Install(e, Goto(St(e), t, "complete"))
    /\ UNCHANGED <<msgs, calls, envHolds>>

\* a function without message sequences that writes its argument to the
\* shared variable
LocalWriteBody(e) ==
  \E t \in threads[e] :
    /\ t.pc = "body"
    /\ ToExecFrom(e, t) = "set_username"
    /\ LET S == St(e)
       IN Install(e, Goto([S EXCEPT !.contexts[t.ctx].shareds[username] =
                                     S.events[t.ev].arg], t, "complete"))
    /\ UNCHANGED <<msgs, calls, envHolds>>

\* Lobby._onCreate: assign the external passed in to the global users
OnCreateBody(e) ==
  \E t \in threads[e] :
    /\ t.pc = "body"
    /\ ToExecFrom(e, t) = "Lobby_onCreate"
    /\ LET S == St(e)
           from == S.events[t.ev].arg
           to == S.contexts[t.ctx].endGlobals[users]
           rc == S.contexts[t.ctx].refCounts
           rc1 == Put(rc, from, (IF from \in DOMAIN rc THEN rc[from] ELSE 0) + 1)
           rc2 == IF to \in DOMAIN S.externalStore
                  THEN Put(rc1, to,
                           (IF to \in DOMAIN rc1 THEN rc1[to] ELSE 0) - 1)
                  ELSE rc1
           S1 == [S EXCEPT !.contexts[t.ctx].refCounts = rc2,
                           !.contexts[t.ctx].endGlobals[users] = from]
       IN Install(e, Goto(S1, t, "complete"))
    /\ UNCHANGED <<msgs, calls, envHolds>>

\* a function that runs a message sequence, up to the check its send
\* function makes before writing the message: on a stale context
\* _start_session raises _PostponeException, _refresh returns to the body,
\* which goes on to wait for the reply
SendBody(e) ==
  \E t \in threads[e] :
    /\ t.pc = "body"
    /\ ToExecFrom(e, t) \in {"begin_session", "push_username"}
    /\ LET S == St(e)
           arg == S.events[t.ev].arg
           S1 == [S EXCEPT
                    !.contexts[t.ctx].messageSent = TRUE,
                    !.contexts[t.ctx].seqGlobals = Put(@, "8__name", arg),
                    !.contexts[t.ctx].shareds[username] = arg]
       IN Install(e, IF ~Stale(S1, t) THEN Goto(S1, t, "send")
                     ELSE IF ToExecFrom(e, t) = "begin_session"
                     THEN Goto(S1, t, "postponed")
                     ELSE Goto(S1, t, "wait"))
    /\ UNCHANGED <<msgs, calls, envHolds>>

SendStep(e) ==
  \E t \in threads[e] :
    /\ t.pc = "send"
    /\ LET S == St(e)
           ev == S.events[t.ev]
           S1 == WriteMsg(S, EndpointMsg(S.contexts[t.ctx], ev,
                            StepOf(ev.name), SequenceNameOf(ev.name)))
           S2 == Note(Goto(S1, t, "wait"),
                      [op |-> IF Stale(S, t) THEN "stale send" ELSE "send",
                       ev |-> t.ev, id |-> ev.id])
       IN Install(e, S2) /\ Send(e, S2)
    /\ UNCHANGED <<calls, envHolds>>

WaitMessage(e) ==
  \E t \in threads[e] :
    /\ t.pc = "wait"
    /\ LET S == St(e)
           q == S.contexts[t.ctx].msgReceivedQueue
       IN /\ q # <<>>
          /\ Install(e,
               Goto([S EXCEPT !.contexts[t.ctx].msgReceivedQueue = Tail(q)],
                    t, IF Head(q) # S.contexts[t.ctx].id THEN "postponed"
                       ELSE "complete"))
    /\ UNCHANGED <<msgs, calls, envHolds>>

Rename(v) == v + 2

RECURSIVE FreshName(_, _)
FreshName(v, taken) == IF v \in taken THEN FreshName(Rename(v), taken) ELSE v

\* Lobby._add_user: the receiving step of BeginSession
AddUserBody(e) ==
  \E t \in threads[e] :
    /\ t.pc = "body"
    /\ ToExecFrom(e, t) = "Lobby_add_user"
    /\ LET S == St(e)
           obj == S.contexts[t.ctx].endGlobals[users]
       IN IF obj \notin DOMAIN S.externalStore
          THEN Install(e, Finish([S EXCEPT !.assertFailed =
                                    @ \cup {"_add_user: no object"}], t))
               /\ UNCHANGED msgs
          ELSE LET name == FreshName(S.contexts[t.ctx].shareds[username],
                                     S.externalObjects[obj].val)
                   S1 == [S EXCEPT
                            !.contexts[t.ctx].shareds[username] = name,
                            !.contexts[t.ctx]
                               .writtenToExternalsOnThisEndpoint = @ \cup {obj},
                            !.externalObjects[obj].val = @ \cup {name}]
                   S2 == WriteMsg(S1, EndpointMsg(S1.contexts[t.ctx],
                            S1.events[t.ev],
                            MESSAGE_SEQUENCE_SENTINEL_FINISH, "BeginSession"))
                   S3 == IF IInitiated(S2, S2.events[t.ev].id)
                         THEN SignalMessageSequenceComplete(
                                S2, t.ctx, S2.contexts[t.ctx].id, FALSE)
                         ELSE S2
                   S4 == Note(Finish(S3, t),
                           [op |-> IF Stale(S, t) THEN "stale step" ELSE "step",
                            ev |-> t.ev, id |-> S.events[t.ev].id])
               IN Install(e, S4) /\ Send(e, S4)
    /\ UNCHANGED <<calls, envHolds>>

\* _Endpoint._Text: the receiving step of a refresh sequence
TextBody(e) ==
  \E t \in threads[e] :
    /\ t.pc = "body"
    /\ ToExecFrom(e, t) = REFRESH_RECEIVE_KEY
    /\ LET S == St(e)
           S1 == WriteMsg(S, EndpointMsg(S.contexts[t.ctx], S.events[t.ev],
                            MESSAGE_SEQUENCE_SENTINEL_FINISH, "_refresh"))
           S2 == SignalMessageSequenceComplete(
                   S1, t.ctx, S1.contexts[t.ctx].id, FALSE)
           S3 == Note(Finish(S2, t),
                      [op |-> IF Stale(S, t) THEN "stale step" ELSE "step",
                       ev |-> t.ev, id |-> S.events[t.ev].id])
       IN Install(e, S3) /\ Send(e, S3)
    /\ UNCHANGED <<calls, envHolds>>

Complete(e) ==
  \E t \in threads[e] :
    /\ t.pc = "complete"
    /\ Install(e, SetCompleted(St(e), t))
    /\ UNCHANGED <<msgs, calls, envHolds>>

SendRelease(e) ==
  \E t \in threads[e] :
    /\ t.pc = "release"
    /\ LET S == St(e)
           S1 == WriteMsg(S, EventReleaseMsg(S.contexts[t.ctx],
                                             S.events[t.ev]))
           S2 == Note(Finish(FireOnCompletes(S1, t.ctx), t),
                      [op |-> "release", ev |-> t.ev, id |-> S.events[t.ev].id])
       IN Install(e, S2) /\ Send(e, S2)
    /\ UNCHANGED <<calls, envHolds>>

\* _ExecuteActiveEventThread.run: the handler of _PostponeException
HandlePostpone(e) ==
  \E t \in threads[e] :
    /\ t.pc = "postponed"
    /\ LET S == St(e)
           S1 == BackoutExternalChanges(S, t.ctx)
           S2 == [S1 EXCEPT !.reservations =
                    Release(@, S.events[t.ev].extsToRead,
                            S.events[t.ev].extsToWrite)]
       IN Install(e, Note(Finish(S2, t),
                     [op |-> "unwound", ev |-> t.ev, id |-> S.events[t.ev].id]))
    /\ UNCHANGED <<msgs, calls, envHolds>>

CreatesEvent(e, m) ==
  /\ m.control \notin {NOT_ACCEPTED_SENTINEL, RELEASE_EVENT_SENTINEL,
                       MESSAGE_SEQUENCE_SENTINEL_FINISH}
  /\ m.eventId \notin DOMAIN activeEventDict[e]

MsgReceive(e) ==
  /\ msgs[e] # <<>>
  /\ checkNext[e] < MaxSweeps
  /\ CreatesEvent(e, Head(msgs[e])) => lastIdAssigned[e] + 2 <= MaxId
  /\ LET S == MsgReceiveOp(St(e), Head(msgs[e]))
     IN /\ Install(e, Note(S, [op |-> "receive", ev |-> 0,
                               id |-> Head(msgs[e]).eventId]))
        /\ msgs' = [msgs EXCEPT ![e] = Tail(@), ![Peer(e)] = @ \o S.out]
  /\ UNCHANGED <<calls, envHolds>>

NextEventLoader(e) ==
  /\ checkNext[e] > 0
  /\ lastIdAssigned[e] + 2 * Len(inactiveEvents[e]) <= MaxId
  /\ Install(e, Note([CheckNextEvent(St(e)) EXCEPT !.checkNext = @ - 1],
                     [op |-> "sweep", ev |-> 0, id |-> 0]))
  /\ UNCHANGED <<msgs, calls, envHolds>>

\* another user of the external object (another Lobby of the server, which
\* shares the list and its reservation manager) takes or gives back its lock
EnvAcquire(e) ==
  \E o \in DOMAIN reservations[e] :
    /\ Cardinality(envHolds[e]) < MaxEnvHolds
    /\ calls < MaxCalls
    /\ calls' = calls + 1
    /\ CanAcquire(reservations[e], {}, {o})
    /\ reservations' = [reservations EXCEPT ![e] = Acquire(@, {}, {o})]
    /\ envHolds' = [envHolds EXCEPT ![e] = @ \cup {o}]
    /\ log' = <<>>
    /\ UNCHANGED <<events, activeEventDict, inactiveEvents,
                   globSharedReadVars, globSharedWriteVars, lastIdAssigned,
                   committedContext, contexts, externalStore,
                   externalObjects, threads, toExecute, checkNext, callers,
                   assertFailed, storeLocked, msgs, mutex>>

EnvRelease(e) ==
  \E o \in envHolds[e] :
    /\ reservations' = [reservations EXCEPT ![e] = Release(@, {}, {o})]
    /\ envHolds' = [envHolds EXCEPT ![e] = @ \ {o}]
    /\ log' = <<>>
    /\ UNCHANGED <<events, activeEventDict, inactiveEvents,
                   globSharedReadVars, globSharedWriteVars, lastIdAssigned,
                   committedContext, contexts, externalStore,
                   externalObjects, threads, toExecute, checkNext, callers,
                   assertFailed, storeLocked, msgs, calls, mutex>>

Init ==
  /\ events = [e \in EP |-> <<>>]
  /\ activeEventDict = [e \in EP |-> EmptyFn]
  /\ inactiveEvents = [e \in EP |-> <<>>]
  /\ globSharedReadVars = [e \in EP |-> [k \in GlobSharedVars(e) |-> 0]]
  /\ globSharedWriteVars = [e \in EP |-> [k \in GlobSharedVars(e) |-> 0]]
  /\ lastIdAssigned = [e \in EP |-> InitialLastIdAssigned(e)]
  /\ committedContext =
       [e \in EP |->
          [shareds |-> (username :> EmptyString),
           endGlobals |->
              IF e = Client
              THEN (username :> EmptyString) @@ (on_began_session :> 1)
              ELSE (username :> EmptyString) @@ (users :> UsersObj)]]
  /\ contexts = [e \in EP |-> EmptyFn]
  /\ externalStore = [e \in EP |-> IF e = Lobby THEN (UsersObj :> 1)
                                                ELSE EmptyFn]
  /\ reservations =
       [e \in EP |-> IF e = Lobby THEN [o \in ExtObjs |-> [r |-> 0, w |-> 0]]
                                  ELSE EmptyFn]
  /\ externalObjects =
       [e \in EP |-> IF e = Lobby
                     THEN [o \in ExtObjs |-> [val |-> {}, committed |-> {}]]
                     ELSE EmptyFn]
  /\ threads = [e \in EP |-> {}]
  /\ toExecute = [e \in EP |-> {}]
  /\ checkNext = [e \in EP |-> 0]
  /\ callers = [e \in EP |-> {}]
  /\ assertFailed = [e \in EP |-> {}]
  /\ storeLocked = [e \in EP |-> FALSE]
  /\ msgs = [e \in EP |-> <<>>]
  /\ calls = 0
  /\ envHolds = [e \in EP |-> {}]
  /\ mutex = [e \in EP |-> Free]
  /\ log = <<>>

Next ==
  \E e \in EP :
    \/ ExternalCall(e)
    \/ CallerReturn(e)
    \/ DoExecuteActive(e)
    \/ ExecuteInternal(e)
    \/ LocalBody(e)
    \/ LocalWriteBody(e)
    \/ OnCreateBody(e)
    \/ SendBody(e)
    \/ SendStep(e)
    \/ WaitMessage(e)
    \/ AddUserBody(e)
    \/ TextBody(e)
    \/ Complete(e)
    \/ SendRelease(e)
    \/ HandlePostpone(e)
    \/ MsgReceive(e)
    \/ NextEventLoader(e)
    \/ EnvAcquire(e)
    \/ EnvRelease(e)

Spec == Init /\ [][Next]_vars

\* Fairness.  What runs without the application: started threads run,
\* written messages are delivered, a blocked caller whose result is there
\* returns, and the other user of the list gives its lock back.
ThreadCanRun(e, t) ==
  t.pc = "wait" => contexts[e][t.ctx].msgReceivedQueue # <<>>

EngineEnabled(e) ==
  \/ \E i \in callers[e] :
       events[e][i].returnQueue > 0 /\ checkNext[e] < MaxSweeps
  \/ toExecute[e] # {}
  \/ \E t \in threads[e] : ThreadCanRun(e, t)
  \/ /\ msgs[e] # <<>>
     /\ checkNext[e] < MaxSweeps
     /\ CreatesEvent(e, Head(msgs[e])) => lastIdAssigned[e] + 2 <= MaxId
  \/ /\ checkNext[e] > 0
     /\ lastIdAssigned[e] + 2 * Len(inactiveEvents[e]) <= MaxId

\* a step of the engine: every step but an external call or a step of the
\* other user of the list
EngineStep == calls' = calls /\ envHolds' = envHolds

\* weak fairness of the engine's steps, WF_vars(EngineStep), with the
\* enabling condition written out as the state predicate EngineEnabled
EngineFair ==
  \/ []<>(\A e \in EP : ~EngineEnabled(e))
  \/ []<><<EngineStep>>_vars

FairSpec == Spec /\ EngineFair /\ \A e \in EP : WF_vars(EnvRelease(e))

\* the active set of an endpoint
ActiveIds(e) == DOMAIN activeEventDict[e]
ActiveEvent(e, id) == events[e][activeEventDict[e][id].ev]

\* ------------------------------------------- admission driven directly
\* the prototypes an endpoint generates events from
PrototypesOf(e) ==
  IF e = Client
  THEN {"get_username", "begin_session", "Client_onCreate",
        "_onComplete_Client_BeginSession"}
  ELSE {"Lobby_onCreate", "begin_session", "push_username"}

\* an event is generated from a prototype and addEventToEndpointIfCan is
\* called on it without force and without a new id
TryAdmit(e) ==
  /\ calls < MaxAdmits
  /\ lastIdAssigned[e] + 2 <= MaxId
  /\ \E name \in PrototypesOf(e) :
       LET S1 == GenerateActiveEvent(St(e), name, 0)
       IN Install(e, AddEventToEndpointIfCan(S1, Len(S1.events),
                                             FALSE, FALSE).S)
  /\ calls' = calls + 1
  /\ UNCHANGED <<msgs, envHolds>>

\* an admitted event is committed
Retire(e) ==
  \E id \in ActiveIds(e) :
    /\ Install(e, CommitActiveEvent(St(e), activeEventDict[e][id].ev,
                                    activeEventDict[e][id].ctx))
    /\ UNCHANGED <<msgs, calls, envHolds>>

NextAdmit ==
  \E e \in EP :
    \/ TryAdmit(e)
    \/ Retire(e)
    \/ EnvAcquire(e)
    \/ EnvRelease(e)

SpecAdmit == Init /\ [][NextAdmit]_vars

\* --------------------------------- an endpoint whose events are refused
\* a NOT_ACCEPTED message for an active event is received: _msgReceive
\* postpones the event and starts a _NextEventLoader
RefusalArrives(e) ==
  \E id \in ActiveIds(e) :
    /\ checkNext[e] < MaxSweeps
    /\ events[e][activeEventDict[e][id].ev].contextId < 2 * MaxRefusals
    /\ Install(e, Note(MsgReceiveOp(St(e), EventNotAcceptedMsg(id)),
                       [op |-> "refusal", ev |-> 0, id |-> id]))
    /\ UNCHANGED <<msgs, calls, envHolds>>

NextRefused ==
  \E e \in {Lobby} :
    \/ ExternalCall(e)
    \/ CallerReturn(e)
    \/ DoExecuteActive(e)
    \/ ExecuteInternal(e)
    \/ OnCreateBody(e)
    \/ SendBody(e)
    \/ SendStep(e)
    \/ WaitMessage(e)
    \/ Complete(e)
    \/ HandlePostpone(e)
    \/ NextEventLoader(e)
    \/ RefusalArrives(e)
    \/ EnvAcquire(e)
    \/ EnvRelease(e)

SpecRefused == Init /\ [][NextRefused]_vars

\* ================================================================ claims

\* C1: on one endpoint no two distinct events of the active set have
\* conflicting footprints (no writer+writer, no writer+reader on a variable)
C1_MutualExclusion ==
  \A e \in EP : \A a, b \in ActiveIds(e) :
    a # b =>
      /\ Writes(ActiveEvent(e, a)) \cap Footprint(ActiveEvent(e, b)) = {}
      /\ Writes(ActiveEvent(e, b)) \cap Footprint(ActiveEvent(e, a)) = {}

\* two events are in the active set of one endpoint at the same time
C1_Witness == \E e \in EP : Cardinality(ActiveIds(e)) >= 2

Logged(what) == \E k \in DOMAIN log : log[k].op = what

\* the execution thread t of endpoint e takes its setCompleted step
Completes(e, t) == t \in threads[e] /\ t.pc = "complete" /\ t \notin threads'[e]

\* C2: a context is merged into the committed Context iff its generation id
\* equals its event's current generation at commit time; an execution that
\* finishes with a stale context ends with a cancellation and changes neither
\* the committed Context, the usage counters, the active set nor the caller's
\* result channel
C2_CommitAtomicity ==
  [][\A e \in EP :
       /\ \A t \in threads[e] :
            Completes(e, t) =>
              IF contexts[e][t.ctx].id = events[e][t.ev].contextId
              THEN /\ \A k \in DOMAIN contexts[e][t.ctx].shareds :
                        committedContext'[e].shareds[k]
                          = contexts[e][t.ctx].shareds[k]
                   /\ \A k \in DOMAIN contexts[e][t.ctx].endGlobals :
                        committedContext'[e].endGlobals[k]
                          = contexts[e][t.ctx].endGlobals[k]
                   /\ events[e][t.ev].id \notin DOMAIN activeEventDict'[e]
                   /\ events'[e][t.ev].returnQueue
                        = events[e][t.ev].returnQueue + 1
              ELSE /\ [t EXCEPT !.pc = "postponed"] \in threads'[e]
                   /\ committedContext'[e] = committedContext[e]
                   /\ globSharedReadVars'[e] = globSharedReadVars[e]
                   /\ globSharedWriteVars'[e] = globSharedWriteVars[e]
                   /\ activeEventDict'[e] = activeEventDict[e]
                   /\ events'[e][t.ev].returnQueue = events[e][t.ev].returnQueue
       /\ committedContext'[e] # committedContext[e] =>
            \E k \in DOMAIN log' :
              /\ log'[k].ep = e /\ log'[k].op = "commit"
              /\ log'[k].id \in DOMAIN activeEventDict[e]
              /\ contexts[e][activeEventDict[e][log'[k].id].ctx].id
                   = events[e][log'[k].ev].contextId]_vars

\* an execution has reached setCompleted with a stale context
C2_Witness == Logged("cancelled")

\* no event of the active set has the variable in its footprint
Untouched(e, v) ==
  \A id \in ActiveIds(e) : v \notin Footprint(ActiveEvent(e, id))

Quiet(v) ==
  /\ \A e \in EP : Untouched(e, v)
  /\ \A e \in EP : msgs[e] = <<>>

Own(e, i) == events[e][i].toExecFrom = events[e][i].name

IsActive(e, i) ==
  \E id \in ActiveIds(e) : activeEventDict[e][id].ev = i

\* the event object has been committed on the endpoint
Committed(e, i) == events[e][i].active /\ ~IsActive(e, i)

CommittedWithoutMessage(e) ==
  \E i \in DOMAIN events[e] :
    /\ Own(e, i) /\ Committed(e, i)
    /\ ~contexts[e][<<i, events[e][i].contextId>>].messageSent

C7_NoStaleEffect == ~Logged("stale send") /\ ~Logged("stale step")

\* a request for event id, written by its initiator, is on its way to e
RequestInFlight(e, id) ==
  \E k \in DOMAIN msgs[e] :
    /\ msgs[e][k].eventId = id
    /\ msgs[e][k].control \in {"Lobby_add_user", REFRESH_RECEIVE_KEY}

\* the id of the first event an endpoint starts
FirstId(e) == InitialLastIdAssigned(e) + 2

\* both endpoints have admitted their own event and requested it of the peer
\* before the other's request arrived
Crossing(a, b) ==
  /\ a \in ActiveIds(Client) /\ RequestInFlight(Lobby, a)
  /\ b \in ActiveIds(Lobby) /\ RequestInFlight(Client, b)

\* the event of the endpoint with the higher priority is the one admitted
\* on both endpoints
Resolved(a, b) ==
  /\ b \in ActiveIds(Client) /\ b \in ActiveIds(Lobby)
  /\ a \notin ActiveIds(Client) /\ a \notin ActiveIds(Lobby)

SameInstant ==
  /\ events[Client] # <<>> /\ events[Lobby] # <<>>
  /\ Own(Client, 1) /\ events[Client][1].name = "begin_session"
  /\ Own(Lobby, 1) /\ events[Lobby][1].name = "push_username"

\* an event's generation is odd while it is admitted and moves on by one
\* when it is admitted and when it is postponed
TimesPostponed(e, i) == events[e][i].contextId \div 2
TimesAdmitted(e, i) == (events[e][i].contextId + 1) \div 2

\* the event the peer started has been committed on endpoint e
PeerEventCommitted(e) ==
  \E j \in DOMAIN events[e] :
    /\ ~Own(e, j) /\ events[e][j].id = FirstId(Peer(e))
    /\ Committed(e, j)

\* C5: when A (low priority) and B (high priority) start an event writing
\* username at the same instant, B's event is admitted on both endpoints
\* and commits first, A's event is postponed exactly once, and A's event is
\* retried and admitted only after B's event has committed
C5_TwoPeerScenario ==
  /\ [](SameInstant =>
          /\ TimesPostponed(Client, 1) <= 1
          /\ TimesAdmitted(Client, 1) <= 2
          /\ TimesAdmitted(Lobby, 1) = 1 /\ TimesPostponed(Lobby, 1) = 0
          /\ TimesAdmitted(Client, 1) = 2 => PeerEventCommitted(Client)
          /\ Committed(Client, 1) => Committed(Lobby, 1))
  /\ SameInstant ~>
       (SameInstant /\ Committed(Lobby, 1) /\ PeerEventCommitted(Client)
          /\ TimesPostponed(Client, 1) = 1)

\* ---- events the peer has accepted
\* the id was assigned by endpoint e
InitiatedBy(e, id) == id % 2 = InitialLastIdAssigned(e) % 2

\* the initiator has committed the event and its release has not yet been
\* processed by the peer
ReleasePending(e, id) ==
  \/ \E t \in threads[e] : t.pc = "release" /\ events[e][t.ev].id = id
  \/ \E k \in DOMAIN msgs[Peer(e)] :
       /\ msgs[Peer(e)][k].control = RELEASE_EVENT_SENTINEL
       /\ msgs[Peer(e)][k].eventId = id

Refusing(e, id) ==
  \E k \in DOMAIN msgs[e] :
    msgs[e][k].control = NOT_ACCEPTED_SENTINEL /\ msgs[e][k].eventId = id

\* C6: once the peer has admitted an event in response to the initiator's
\* request, the event is not postponed on either endpoint and is not
\* refused: it is in both active sets until the initiator commits it, and
\* in the peer's until the peer has processed the release
C6_AcceptedRunToCompletion ==
  \A e \in EP : \A id \in ActiveIds(Peer(e)) :
    InitiatedBy(e, id) =>
      /\ id \in ActiveIds(e) \/ ReleasePending(e, id)
      /\ ~Refusing(e, id)

\* ---- references held on external objects
\* the context is the one its event is running with
Current(e, key) ==
  /\ events[e][key[1]].contextId = key[2]
  /\ IsActive(e, key[1])

\* an execution of the context has been scheduled or has not yet ended
Executing(e, key) ==
  \/ \E d \in toExecute[e] : d.ctx = key
  \/ \E t \in threads[e] : t.ctx = key

Holding(e, key) == contexts[e][key].heldExternalReferences # <<>>

C9_CountsNonNegative ==
  \A e \in EP : \A o \in DOMAIN externalStore[e] : externalStore[e][o] >= 0

\* the list the Lobby was created with has been replaced by another one
\* and collected, after its count was raised, lowered and found empty
C9_Witness ==
  /\ UsersObj \notin DOMAIN externalStore[Lobby]
  /\ OtherObj \in DOMAIN externalStore[Lobby]
  /\ committedContext[Lobby].endGlobals[users] = OtherObj

\* ---- the admission decision
\* a step in which an event was generated on e and its admission tried
Admission(e) == Len(events'[e]) = Len(events[e]) + 1

\* another active event has one of the variables in its write footprint
WriterOn(e, keys) ==
  \E id \in ActiveIds(e) : Writes(ActiveEvent(e, id)) \cap keys # {}

\* another active event has one of the variables in its footprint
UserOf(e, keys) ==
  \E id \in ActiveIds(e) : Footprint(ActiveEvent(e, id)) \cap keys # {}

ReservationSucceeds(e, ev) ==
  CanAcquire(reservations[e], ExternalsOf(St(e), Reads(ev)),
             ExternalsOf(St(e), Writes(ev)))

Plus(counters, keys, k) == counters[k] + (IF k \in keys THEN 1 ELSE 0)

\* the context is a copy of the committed Context filtered to the footprint
FreshCopy(e, ctx, ev) ==
  /\ ctx.id = ev.contextId
  /\ DOMAIN ctx.shareds \cup DOMAIN ctx.endGlobals = Footprint(ev)
  /\ \A k \in DOMAIN ctx.shareds : ctx.shareds[k] = committedContext[e].shareds[k]
  /\ \A k \in DOMAIN ctx.endGlobals :
       ctx.endGlobals[k] = IF k \in DOMAIN committedContext[e].endGlobals
                           THEN committedContext[e].endGlobals[k]
                           ELSE DNE_PLACE_HOLDER

\* C10: admission without force is granted iff (a) no other active event
\* writes a variable the event reads, (b) no other active event reads or
\* writes a variable the event writes, and (c) the reservation of the
\* event's external objects succeeds; on grant each usage counter of the
\* footprint goes up by one, a fresh Context is allocated and the event is
\* registered as active; on refusal nothing of this changes
C10_AdmissionDecision ==
  [][\A e \in EP :
       Admission(e) =>
         LET i == Len(events'[e])
             ev == events'[e][i]
             key == <<i, ev.contextId>>
         IN /\ ev.active <=> /\ ~WriterOn(e, Reads(ev))
                             /\ ~UserOf(e, Writes(ev))
                             /\ ReservationSucceeds(e, ev)
            /\ ev.active =>
                 /\ \A k \in DOMAIN globSharedReadVars[e] :
                      globSharedReadVars'[e][k]
                        = Plus(globSharedReadVars[e], Reads(ev), k)
                 /\ \A k \in DOMAIN globSharedWriteVars[e] :
                      globSharedWriteVars'[e][k]
                        = Plus(globSharedWriteVars[e], Writes(ev), k)
                 /\ key \notin DOMAIN contexts[e]
                 /\ key \in DOMAIN contexts'[e]
                 /\ FreshCopy(e, contexts'[e][key], ev)
                 /\ ActiveIds(e)' = ActiveIds(e) \cup {ev.id}
                 /\ activeEventDict'[e][ev.id] = [ev |-> i, ctx |-> key]
            /\ ~ev.active =>
                 /\ globSharedReadVars'[e] = globSharedReadVars[e]
                 /\ globSharedWriteVars'[e] = globSharedWriteVars[e]
                 /\ activeEventDict'[e] = activeEventDict[e]
                 /\ contexts'[e] = contexts[e]
                 /\ reservations'[e] = reservations[e]]_vars

\* two events that only read the same variable are active together, and an
\* event that writes it has been refused
C10_Witness ==
  /\ \E a, b \in ActiveIds(Client) :
       /\ a # b
       /\ ActiveEvent(Client, a).name = "_onComplete_Client_BeginSession"
       /\ ActiveEvent(Client, b).name = "_onComplete_Client_BeginSession"
  /\ \E i \in DOMAIN events[Client] :
       events[Client][i].name = "Client_onCreate" /\ ~events[Client][i].active

\* ---- a failed admission attempt
\* what the claim lists of an endpoint and of the event i: the active set,
\* the inactive list, the usage counters, the committed Context, the event's
\* id and generation, the endpoint's id counter and the reservations
AdmissionState(S, i) ==
  [activeEventDict |-> S.activeEventDict,
   inactiveEvents |-> S.inactiveEvents,
   globSharedReadVars |-> S.globSharedReadVars,
   globSharedWriteVars |-> S.globSharedWriteVars,
   committedContext |-> S.committedContext,
   id |-> S.events[i].id,
   contextId |-> S.events[i].contextId,
   lastIdAssigned |-> S.lastIdAssigned,
   reservations |-> S.reservations]

\* the events the sweep retries
Waiting(e) ==
  {inactiveEvents[e][k] : k \in DOMAIN inactiveEvents[e]}
    \cap {i \in DOMAIN events[e] : ~events[e][i].active}

\* the endpoint after an external entry point has generated a new event
Generated(e, name) == GenerateActiveEvent(St(e), name, 0)

\* a failed attempt leaves everything the claim lists as it was
Unchanged(S, i, force, newId) ==
  LET r == AddEventToEndpointIfCan(S, i, force, newId)
  IN ~r.added => AdmissionState(r.S, i) = AdmissionState(S, i)

\* a failed attempt changes at most the event's id and the id counter, which
\* take the next id of the endpoint
UnchangedButId(S, i, force, newId) ==
  LET r == AddEventToEndpointIfCan(S, i, force, newId)
  IN ~r.added =>
       /\ [AdmissionState(r.S, i) EXCEPT !.id = 0, !.lastIdAssigned = 0]
            = [AdmissionState(S, i) EXCEPT !.id = 0, !.lastIdAssigned = 0]
       /\ r.S.lastIdAssigned = S.lastIdAssigned + 2
       /\ r.S.events[i].id = S.lastIdAssigned + 2

\* C11 as stated: a non-forced admission attempt that fails has no side
\* effects on the active set, the inactive list, the usage counters, the
\* committed Context, the event's id and generation, the endpoint's id
\* counter and the reservations, also when the attempt is the retry made by
\* the sweep (which asks for a new id)
C11_FailedAttemptNoEffect ==
  \A e \in EP :
    /\ \A name \in PrototypesOf(e) :
         Unchanged(Generated(e, name), Len(events[e]) + 1, FALSE, FALSE)
    /\ \A i \in Waiting(e) : Unchanged(St(e), i, FALSE, TRUE)

\* C11 amended: a failed non-forced attempt of an entry point changes none
\* of these; a failed retry of the sweep changes none of them but the
\* event's id and the endpoint's id counter, which have advanced to the next
\* id of the endpoint
C11_FailedAttemptFrame ==
  \A e \in EP :
    /\ \A name \in PrototypesOf(e) :
         Unchanged(Generated(e, name), Len(events[e]) + 1, FALSE, FALSE)
    /\ \A i \in Waiting(e) : UnchangedButId(St(e), i, FALSE, TRUE)

\* the last step was a sweep whose retry of an event was refused, and the
\* event carries the id the retry took
C11_Witness ==
  \E e \in EP : \E k \in DOMAIN log :
    /\ log[k].ep = e /\ log[k].op = "denied"
    /\ Logged("sweep")
    /\ log[k].ev \in Waiting(e)
    /\ events[e][log[k].ev].id = lastIdAssigned[e]

\* ---- forced admission
\* a variable is written by one event and read or written by the other
FootprintsConflict(a, b) ==
  \/ Writes(a) \cap Footprint(b) # {}
  \/ Writes(b) \cap Footprint(a) # {}

\* the active events of e a new event of the prototype conflicts with
Hit(e, name) ==
  {id \in ActiveIds(e) :
     FootprintsConflict([name |-> name], ActiveEvent(e, id))}

\* the event with this id has been postponed from S0 to S
PostponedIn(S0, S, id) ==
  LET k == S0.activeEventDict[id].ev
  IN /\ id \notin DOMAIN S.activeEventDict
     /\ ~S.events[k].active
     /\ S.events[k].contextId > S0.events[k].contextId
     /\ k \in {S.inactiveEvents[n] : n \in DOMAIN S.inactiveEvents}

\* the event with this id is as active in S as it was in S0
KeptIn(S0, S, id) ==
  LET k == S0.activeEventDict[id].ev
  IN /\ id \in DOMAIN S.activeEventDict
     /\ S.activeEventDict[id] = S0.activeEventDict[id]
     /\ S.events[k] = S0.events[k]

\* a forced attempt on a new event of the prototype
ForcedOutcome(e, name) ==
  LET S1 == Generated(e, name)
      i == Len(S1.events)
      r == AddEventToEndpointIfCan(S1, i, TRUE, FALSE)
      extsToRead == ExternalsOf(St(e), Reads(S1.events[i]))
      extsToWrite == ExternalsOf(St(e), Writes(S1.events[i]))
  IN /\ \A id \in Hit(e, name) : PostponedIn(S1, r.S, id)
     /\ \A id \in ActiveIds(e) \ Hit(e, name) : KeptIn(S1, r.S, id)
     /\ r.added <=> CanAcquire(reservations[e], extsToRead, extsToWrite)
     /\ extsToRead \cup extsToWrite = {} => r.added
     /\ r.added => /\ r.S.events[i].active
                   /\ S1.events[i].id \in DOMAIN r.S.activeEventDict

\* C12: an admission with force first postpones every active event whose
\* footprint conflicts with the new event and no other, and then succeeds
\* exactly when the reservation of the event's external objects succeeds
\* (always, when it has none)
C12_ForcedAdmission ==
  \A e \in EP : \A name \in PrototypesOf(e) : ForcedOutcome(e, name)

\* the last step received the peer's request and admitted it by force,
\* postponing an event of this endpoint, while a forced attempt in this
\* state would leave an active event alone on the other endpoint
C12_Witness ==
  /\ Logged("receive") /\ Logged("postpone") /\ Logged("admitted")
  /\ \E e \in EP : \E name \in PrototypesOf(e) :
       ActiveIds(e) \ Hit(e, name) # {}

\* ---- refusal by the reservation manager
\* the reservation manager refuses the externals of a new event of the
\* prototype
ReservationRefused(e, name) ==
  ~CanAcquire(reservations[e],
              ExternalsOf(St(e), Reads([name |-> name])),
              ExternalsOf(St(e), Writes([name |-> name])))

\* an attempt on a new event of the prototype is denied: the event is not
\* registered, no usage counter has gone up and no context was allocated
DeniedOutcome(e, name, force) ==
  LET S1 == Generated(e, name)
      i == Len(S1.events)
      r == AddEventToEndpointIfCan(S1, i, force, FALSE)
  IN /\ ~r.added
     /\ ~r.S.events[i].active
     /\ S1.events[i].id \notin DOMAIN r.S.activeEventDict
     /\ \A k \in DOMAIN globSharedReadVars[e] :
          r.S.globSharedReadVars[k] <= globSharedReadVars[e][k]
     /\ \A k \in DOMAIN globSharedWriteVars[e] :
          r.S.globSharedWriteVars[k] <= globSharedWriteVars[e][k]
     /\ DOMAIN r.S.contexts = DOMAIN contexts[e]
     /\ r.S.reservations = reservations[e]

\* C13: when the reservation manager refuses the lock of an external object
\* of the event's footprint the admission is denied, with force as without:
\* the event is not registered as active, no usage counter is incremented
\* and no Context is allocated
C13_ReservationRefusal ==
  \A e \in EP : \A name \in PrototypesOf(e) : \A force \in BOOLEAN :
    ReservationRefused(e, name) => DeniedOutcome(e, name, force)

\* the Lobby has just denied an event although none of its events is
\* active, the list being locked by another user; a forced attempt of an
\* event that writes the list is refused here as well
C13_Witness ==
  /\ \E k \in DOMAIN log : log[k].ep = Lobby /\ log[k].op = "denied"
  /\ ActiveIds(Lobby) = {}
  /\ envHolds[Lobby] # {}
  /\ ReservationRefused(Lobby, "Lobby_onCreate")
  /\ ~AddEventToEndpointIfCan(Generated(Lobby, "Lobby_onCreate"),
                              Len(events[Lobby]) + 1, TRUE, FALSE).added

\* ---- the priority rule on reception
\* this step is the reception of the first message waiting at e
Receives(e) == msgs[e] # <<>> /\ msgs'[e] = Tail(msgs[e])

\* the message is the peer's first request for an event
FirstRequest(e, m) == CreatesEvent(e, m) /\ ~IInitiated(St(e), m.eventId)

\* the normal rules do not admit a new event of the prototype
CannotAdmit(e, name) ==
  \/ WriterOn(e, Reads([name |-> name]))
  \/ UserOf(e, Writes([name |-> name]))
  \/ ReservationRefused(e, name)

HigherPriority(e) == MyPriority(e) > TheirPriority(e)

OwnWaitsForPeer(e, i) ==
  /\ i \in Waiting(e)
  /\ IInitiated(St(e), events[e][i].id)
  /\ \E id \in ActiveIds(e) :
       /\ ~IInitiated(St(e), id)
       /\ FootprintsConflict(events[e][i], ActiveEvent(e, id))

Minus(counters, keys, k) == counters[k] - (IF k \in keys THEN 1 ELSE 0)

\* what postpone does to the active event with this id apart from its
\* object-level locks: it leaves the active set, the counters of its
\* footprint go down by one, its generation goes up, it is first in the
\* inactive list, and its context is sent the cancellation signal
PostponeEffect(e, id) ==
  LET S == PostponeActiveEvent(St(e), id)
      k == activeEventDict[e][id].ev
      key == activeEventDict[e][id].ctx
      ev == events[e][k]
  IN /\ DOMAIN S.activeEventDict = ActiveIds(e) \ {id}
     /\ ~S.events[k].active
     /\ \A v \in DOMAIN globSharedReadVars[e] :
          S.globSharedReadVars[v] = Minus(globSharedReadVars[e], Reads(ev), v)
     /\ \A v \in DOMAIN globSharedWriteVars[e] :
          S.globSharedWriteVars[v]
            = Minus(globSharedWriteVars[e], Writes(ev), v)
     /\ S.events[k].contextId > ev.contextId
     /\ S.inactiveEvents = <<k>> \o inactiveEvents[e]
     /\ S.contexts[key].msgReceivedQueue
          = Append(contexts[e][key].msgReceivedQueue, INVALID_CONTEXT_ID)
     /\ S.committedContext = committedContext[e]

\* the reservations after the event has given back its object-level locks
ReleasedBy(e, id) ==
  Release(reservations[e], ActiveEvent(e, id).extsToRead,
          ActiveEvent(e, id).extsToWrite)

\* C16 as stated: postpone of an active event, as one step, removes it from
\* the active set, decrements the usage counter of every variable of its
\* footprint, strictly increases its generation, inserts it at the head of
\* the inactive list, releases the locks it holds (those of the reservation
\* manager included) and delivers the cancellation signal to its execution
C16_PostponeReleasesAll ==
  \A e \in EP : \A id \in ActiveIds(e) :
    /\ PostponeEffect(e, id)
    /\ PostponeActiveEvent(St(e), id).reservations = ReleasedBy(e, id)

\* C16 amended: postpone does all of this but for the object-level locks:
\* the reservations and the references the context holds on external
\* objects are as they were after the step
C16_Postpone ==
  \A e \in EP : \A id \in ActiveIds(e) :
    /\ PostponeEffect(e, id)
    /\ PostponeActiveEvent(St(e), id).reservations = reservations[e]
    /\ PostponeActiveEvent(St(e), id).externalStore = externalStore[e]
    /\ PostponeActiveEvent(St(e), id)
         .contexts[activeEventDict[e][id].ctx].heldExternalReferences
         = contexts[e][activeEventDict[e][id].ctx].heldExternalReferences

\* an event has just been postponed: it is first in the inactive list, not
\* active, and its context has been sent the cancellation signal
C16_Witness ==
  \E k \in DOMAIN log :
    /\ log[k].op = "postpone"
    /\ LET e == log[k].ep
           i == log[k].ev
       IN /\ inactiveEvents[e] # <<>>
          /\ Head(inactiveEvents[e]) = i
          /\ ~events[e][i].active
          /\ \E key \in DOMAIN contexts[e] :
               /\ key[1] = i
               /\ contexts[e][key].msgReceivedQueue # <<>>
               /\ contexts[e][key].msgReceivedQueue[
                    Len(contexts[e][key].msgReceivedQueue)]
                    = INVALID_CONTEXT_ID

\* ---- a waiting event is refused
\* the execution of this context waits for the reply of its sequence
WaitingOn(e, key) == \E t \in threads[e] : t.ctx = key /\ t.pc = "wait"

\* an execution waits although its event has been postponed meanwhile
StaleWaiting(e) ==
  \E t \in threads[e] : t.pc = "wait" /\ Stale(St(e), t)

\* this step admits again an event that had been postponed
Readmitted(e, i) ==
  /\ i \in DOMAIN events[e]
  /\ ~events[e][i].active /\ events[e][i].contextId > 0
  /\ events'[e][i].active

\* the execution scheduled for the event at its re-admission
Resumption(e, i) ==
  [ev |-> i, ctx |-> <<i, events'[e][i].contextId>>,
   callType |-> FUNCTION_ARGUMENT_CONTROL_RESUME_POSTPONE]

\* the refusal of a waiting event, step by step
RefusedWhileWaiting(e) ==
  (Receives(e) /\ Head(msgs[e]).control = NOT_ACCEPTED_SENTINEL
     /\ Head(msgs[e]).eventId \in ActiveIds(e)
     /\ WaitingOn(e, activeEventDict[e][Head(msgs[e]).eventId].ctx)) =>
    LET id == Head(msgs[e]).eventId
        i == activeEventDict[e][id].ev
    IN /\ id \notin DOMAIN activeEventDict'[e]
       /\ ~events'[e][i].active
       /\ events'[e][i].contextId > events[e][i].contextId
       /\ inactiveEvents'[e] = <<i>> \o inactiveEvents[e]

\* a stale waiting execution goes nowhere but into its cancellation
UnwindsOnly(e) ==
  \A t \in threads[e] :
    (t.pc \in {"wait", "postponed"} /\ Stale(St(e), t)) =>
      \A u \in threads'[e] :
        u.ctx = t.ctx => u.pc \in {"wait", "postponed"}

\* a re-admitted event gets a new context, copied from the committed one,
\* and an execution that starts at its original entry point
RetriedFromTheTop(e) ==
  \A i \in DOMAIN events[e] :
    Readmitted(e, i) =>
      LET key == <<i, events'[e][i].contextId>>
      IN /\ key \notin DOMAIN contexts[e]
         /\ key \in DOMAIN contexts'[e]
         /\ events'[e][i].contextId > events[e][i].contextId
         /\ contexts'[e][key].id = events'[e][i].contextId
         /\ ~contexts'[e][key].messageSent
         /\ contexts'[e][key].msgReceivedQueue = <<>>
         /\ \A k \in DOMAIN contexts'[e][key].shareds :
              contexts'[e][key].shareds[k] = committedContext'[e].shareds[k]
         /\ events'[e][i].name = events[e][i].name
         /\ events'[e][i].toExecFrom = events[e][i].toExecFrom
         /\ Resumption(e, i) \in toExecute'[e]

\* an execution appears at the start of the function it is to run
StartsAtTheTop(e) ==
  \A u \in threads'[e] :
    (\A t \in threads[e] : t.ctx # u.ctx) => u.pc = "exec"

\* C17: an event of a two-step sequence has sent its message and waits;
\* NOT_ACCEPTED for its id is received.  The event becomes inactive and its
\* generation increases; the waiting execution unwinds with a cancellation
\* and eventually ends; a later retry admits the event with a fresh context
\* and executes its body from its original entry point, never from where it
\* paused
C17_RefusedWhileWaiting ==
  /\ [][\A e \in EP : /\ RefusedWhileWaiting(e)
                       /\ UnwindsOnly(e)
                       /\ RetriedFromTheTop(e)
                       /\ StartsAtTheTop(e)]_vars
  /\ \A e \in EP : StaleWaiting(e) ~> ~StaleWaiting(e)

\* the Client's begin_session was refused by the Lobby, which starts no
\* event of its own, after it had sent its request; its first execution has
\* ended and its retry is in the body again, with a later context
C17_Witness ==
  /\ \A i \in DOMAIN events[Lobby] : events[Lobby][i].name = "begin_session"
  /\ \E t \in threads[Client] :
       /\ t.pc = "body"
       /\ events[Client][t.ev].name = "begin_session"
       /\ events[Client][t.ev].toExecFrom = "begin_session"
       /\ t.ctx[2] > 1
       /\ <<t.ev, 1>> \in DOMAIN contexts[Client]
       /\ contexts[Client][<<t.ev, 1>>].messageSent
       /\ ~Executing(Client, <<t.ev, 1>>)

\* ---- commit
\* the last step committed the event with this id on this endpoint
CommittedNow(e, id) ==
  \E k \in DOMAIN log' :
    log'[k].op = "commit" /\ log'[k].ep = e /\ log'[k].id = id

\* what the commit of the active event with this id has done in this step
CommitEffect(e, id) ==
  LET i == activeEventDict[e][id].ev
      key == activeEventDict[e][id].ctx
      ev == events[e][i]
      c == contexts'[e][key]
  IN /\ Current(e, key)
     /\ reservations'[e] = ReleasedBy(e, id)
     /\ \A v \in DOMAIN c.shareds :
          committedContext'[e].shareds[v] = c.shareds[v]
     /\ \A v \in DOMAIN c.endGlobals :
          committedContext'[e].endGlobals[v] = c.endGlobals[v]
     /\ \A v \in DOMAIN globSharedReadVars[e] :
          globSharedReadVars'[e][v]
            = Minus(globSharedReadVars[e], Reads(ev), v)
     /\ \A v \in DOMAIN globSharedWriteVars[e] :
          globSharedWriteVars'[e][v]
            = Minus(globSharedWriteVars[e], Writes(ev), v)
     /\ DOMAIN activeEventDict'[e] = ActiveIds(e) \ {id}
     /\ \/ checkNext'[e] = checkNext[e] + 1
        \/ /\ i \in callers'[e]
           /\ events'[e][i].returnQueue = ev.returnQueue + 1

\* admission and commit of an event, one after the other, leave the usage
\* counters as they were before the admission
CountersRestored(S, i) ==
  LET r == AddEventToEndpointIfCan(S, i, FALSE, FALSE)
      T == CommitActiveEvent(r.S, i, r.S.activeEventDict[r.S.events[i].id].ctx)
  IN r.added =>
       /\ T.globSharedReadVars = S.globSharedReadVars
       /\ T.globSharedWriteVars = S.globSharedWriteVars
       /\ r.S.globSharedReadVars # S.globSharedReadVars
            \/ r.S.globSharedWriteVars # S.globSharedWriteVars
            \/ Footprint(S.events[i]) = {}

\* a sweep is to run, or has just run, on this endpoint
SweepDue(e) ==
  \/ checkNext[e] > 0
  \/ \E k \in DOMAIN log : log[k].op = "sweep" /\ log[k].ep = e

\* an event of this endpoint has just been committed
JustCommitted(e) ==
  \E k \in DOMAIN log : log[k].op = "commit" /\ log[k].ep = e

\* C18: the commit of an active event with a context of its current
\* generation releases the object-level locks the event obtained at
\* admission, overwrites the committed context's value of every variable
\* the context holds with the context's value, takes the event's own
\* increments off the usage counters of its footprint (so that admission
\* followed by commit leaves them as before the admission), removes the
\* event from the active set, and is followed by a sweep of the inactive
\* events
C18_Commit ==
  /\ [][\A e \in EP : \A id \in ActiveIds(e) :
          CommittedNow(e, id) => CommitEffect(e, id)]_vars
  /\ [](\A e \in EP : \A name \in PrototypesOf(e) :
          CountersRestored(Generated(e, name), Len(events[e]) + 1))
  /\ \A e \in EP : JustCommitted(e) ~> SweepDue(e)

\* the Lobby has just committed the Client's begin_session on the RELEASE
\* it received: the context's value of the shared variable is the committed
\* one and a sweep has been started
C18_Witness ==
  /\ JustCommitted(Lobby)
  /\ \E k \in DOMAIN log : log[k].op = "receive" /\ log[k].ep = Lobby
  /\ checkNext[Lobby] > 0
  /\ \E i \in DOMAIN events[Lobby] :
       /\ events[Lobby][i].name = "begin_session"
       /\ events[Lobby][i].id \notin ActiveIds(Lobby)
       /\ <<i, 1>> \in DOMAIN contexts[Lobby]
       /\ contexts[Lobby][<<i, 1>>].shareds
            = committedContext[Lobby].shareds

\* ---- the release message
\* the messages this endpoint has sent to its peer in this step
Sent(e) ==
  IF Len(msgs'[Peer(e)]) > Len(msgs[Peer(e)])
  THEN SubSeq(msgs'[Peer(e)], Len(msgs[Peer(e)]) + 1, Len(msgs'[Peer(e)]))
  ELSE <<>>

\* an execution that has committed is about to send the release message
Releasing(e) == \E t \in threads[e] : t.pc = "release"

\* a release message is sent alone, by an execution that has completed and
\* committed, whose event is no longer active, whose context has sent a
\* message and is of the event's generation
ReleaseOnlyAfterCommit(e) ==
  \A k \in DOMAIN Sent(e) :
    Sent(e)[k].control = RELEASE_EVENT_SENTINEL =>
      /\ Len(Sent(e)) = 1
      /\ \E t \in threads[e] :
           /\ t.pc = "release" /\ t \notin threads'[e]
           /\ \A u \in threads'[e] : u.ctx # t.ctx
           /\ Sent(e)[k].eventId = events[e][t.ev].id
           /\ events[e][t.ev].id \notin ActiveIds(e)
           /\ contexts[e][t.ctx].messageSent
           /\ ~Stale(St(e), t)

\* the end of an execution: postponed, it is cancelled without a commit;
\* otherwise it commits, in this step sends nothing, and goes on to the
\* release exactly when its context has sent a message
CompletionOutcome(e) ==
  \A t \in threads[e] :
    Completes(e, t) =>
      /\ Sent(e) = <<>>
      /\ IF Stale(St(e), t)
         THEN /\ [t EXCEPT !.pc = "postponed"] \in threads'[e]
              /\ ~CommittedNow(e, events[e][t.ev].id)
              /\ committedContext'[e] = committedContext[e]
         ELSE /\ CommittedNow(e, events[e][t.ev].id)
              /\ IF contexts[e][t.ctx].messageSent
                 THEN [t EXCEPT !.pc = "release"] \in threads'[e]
                 ELSE \A u \in threads'[e] : u.ctx # t.ctx

\* only a completed execution gets to the release, a cancelled one never
\* does, and an id that becomes active is a new one, so that no event is
\* committed and released twice
ReleaseAtMostOnce(e) ==
  /\ \A u \in threads'[e] \ threads[e] :
       u.pc = "release" => [u EXCEPT !.pc = "complete"] \in threads[e]
  /\ \A t \in threads[e] :
       t.pc = "postponed" => \A u \in threads'[e] :
                               u.ctx = t.ctx => u.pc = "postponed"
  /\ \A id \in DOMAIN activeEventDict'[e] \ ActiveIds(e) :
       IInitiated(St(e), id) => id > lastIdAssigned[e]

\* C19: an execution that completes and commits sends RELEASE for its event
\* to the peer once if its context's messageSent is set and sends nothing if
\* it is not; the RELEASE is sent after the local commit has been applied,
\* never for a postponed execution
C19_ReleaseOnCommit ==
  /\ [][\A e \in EP : /\ ReleaseOnlyAfterCommit(e)
                       /\ CompletionOutcome(e)
                       /\ ReleaseAtMostOnce(e)]_vars
  /\ \A e \in EP : Releasing(e) ~> ~Releasing(e)

\* the Client has just sent the release of its committed begin_session,
\* which is in flight to the Lobby; an event that completed without having
\* sent a message is committed too
C19_Witness ==
  /\ \E k \in DOMAIN log :
       /\ log[k].op = "release" /\ log[k].ep = Client
       /\ events[Client][log[k].ev].name = "begin_session"
       /\ log[k].id \notin ActiveIds(Client)
       /\ \E n \in DOMAIN msgs[Lobby] :
            /\ msgs[Lobby][n].control = RELEASE_EVENT_SENTINEL
            /\ msgs[Lobby][n].eventId = log[k].id
  /\ \E i \in DOMAIN events[Client] :
       /\ events[Client][i].name = "get_username"
       /\ events[Client][i].contextId = 1
       /\ events[Client][i].id \notin ActiveIds(Client)
       /\ ~contexts[Client][<<i, 1>>].messageSent
       /\ ~Executing(Client, <<i, 1>>)

\* ---- event ids
\* the ids _getNextActiveEventIdToAssign hands out from this state until
\* the counter has reached last
RECURSIVE IdsFrom(_, _)
IdsFrom(S, last) ==
  IF S.lastIdAssigned >= last THEN {}
  ELSE LET S1 == GetNextActiveEventIdToAssign(S)
       IN {S1.lastIdAssigned} \cup IdsFrom(S1, last)

\* the ids this endpoint has assigned since its construction
IdsAssigned(e) ==
  IdsFrom([St(e) EXCEPT !.lastIdAssigned = InitialLastIdAssigned(e)],
          lastIdAssigned[e])

\* the ids in use on this endpoint: of its events, of its active events,
\* and of the messages in flight to it
IdsInUse(e) ==
  {events[e][i].id : i \in DOMAIN events[e]}
    \cup ActiveIds(e)
    \cup {msgs[e][k].eventId : k \in DOMAIN msgs[e]}

\* C20: every id an endpoint assigns has the parity of the endpoint's
\* initial id counter; the two counters have opposite parity; the sets of
\* ids the two endpoints have assigned are disjoint; _iInitiated of an
\* assigned id is true on the endpoint that assigned it and false on the
\* other; the ids in use are assigned ones
C20_IdParity ==
  /\ InitialLastIdAssigned(Client) % 2 # InitialLastIdAssigned(Lobby) % 2
  /\ IdsAssigned(Client) \cap IdsAssigned(Lobby) = {}
  /\ \A e \in EP :
       /\ lastIdAssigned[e] \in IdsAssigned(e) \cup {InitialLastIdAssigned(e)}
       /\ GetNextActiveEventIdToAssign(St(e)).lastIdAssigned
            \notin IdsAssigned(Peer(e))
       /\ \A id \in IdsAssigned(e) :
            /\ id % 2 = InitialLastIdAssigned(e) % 2
            /\ IInitiated(St(e), id)
            /\ ~IInitiated(St(Peer(e)), id)
       /\ IdsInUse(e) \subseteq IdsAssigned(Client) \cup IdsAssigned(Lobby)

\* both endpoints have assigned several ids, and the Lobby holds as active
\* an event under an id the Client assigned while the Client has taken an
\* id of its own for a retry
C20_Witness ==
  /\ Cardinality(IdsAssigned(Client)) >= 2
  /\ Cardinality(IdsAssigned(Lobby)) >= 2
  /\ ActiveIds(Lobby) \cap IdsAssigned(Client) # {}
  /\ \E i \in DOMAIN events[Client] :
       events[Client][i].contextId > 1
         /\ events[Client][i].id \in IdsAssigned(Client)

\* ---- the sweep, twice
\* ------------------------- an endpoint with several callers and sweeps
\* an application thread calls an entry point: the event is admitted or
\* appended to the inactive list
QueueCall(e) ==
  /\ calls < MaxQueued
  /\ lastIdAssigned[e] + 2 <= MaxId
  /\ \E c \in Callable(e) \cup Scenario(e) :
       Install(e, Note(ExternalCallOp(St(e), c),
                       [op |-> "call", ev |-> Len(events[e]) + 1, id |-> 0]))
  /\ calls' = calls + 1
  /\ UNCHANGED <<msgs, envHolds>>

\* an admitted event commits and its caller starts a _NextEventLoader
RetireAndReturn(e) ==
  \E id \in ActiveIds(e) :
    /\ checkNext[e] < MaxSweeps
    /\ Install(e, TryNextEvent(
                    CommitActiveEvent(St(e), activeEventDict[e][id].ev,
                                      activeEventDict[e][id].ctx)))
    /\ UNCHANGED <<msgs, calls, envHolds>>

NextSweep ==
  \E e \in EP :
    \/ QueueCall(e)
    \/ RetireAndReturn(e)
    \/ NextEventLoader(e)
    \/ EnvAcquire(e)
    \/ EnvRelease(e)

SpecSweep == Init /\ [][NextSweep]_vars

\* what the sweep is to leave alone when there is nothing to admit
SweepFrame(S) ==
  [activeEventDict |-> S.activeEventDict,
   inactiveEvents |-> S.inactiveEvents,
   globSharedReadVars |-> S.globSharedReadVars,
   globSharedWriteVars |-> S.globSharedWriteVars,
   toExecute |-> S.toExecute]

\* the endpoint after one sweep
SweptOnce(e) == CheckNextEvent(St(e))

\* C21: a sweep that follows a sweep with no change of state in between
\* admits no event and changes neither the active set, the inactive list
\* nor the usage counters, and no event has two entries in the active set or
\* two executions for one admission
C21_IdempotentRetry ==
  \A e \in EP :
    /\ SweepFrame(CheckNextEvent(SweptOnce(e))) = SweepFrame(SweptOnce(e))
    /\ \A a, b \in ActiveIds(e) :
         activeEventDict[e][a].ev = activeEventDict[e][b].ev => a = b
    /\ \A c, d \in toExecute[e] : c.ctx = d.ctx => c = d

\* ---- blocking calls
\* an application thread is blocked on the returnQueue of an event
Blocked(e) == callers[e] # {}

\* the ids of the model are used up on some endpoint: a retry can no longer
\* take a new id
IdsExhausted ==
  \E e \in EP :
    \/ lastIdAssigned[e] + 2 > MaxId
    \/ lastIdAssigned[e] + 2 * Len(inactiveEvents[e]) > MaxId

\* C22: under fair scheduling every blocking external call eventually
\* returns: an event that is denied admission or postponed is retried until
\* it is admitted and commits, and no queued event is left without being
\* run (the model's supply of ids permitting)
C22_EveryCallReturns ==
  \A e \in EP : Blocked(e) ~> (~Blocked(e) \/ IdsExhausted)

\* ---- completion callbacks
\* the callbacks started from this context
Fired(e, key) == contexts[e][key].onCompletesFired

\* the sequences that have completed for this context on an endpoint with
\* a callback registered for them
Registered(e, key) == contexts[e][key].onCompletesToFire

\* the context has been committed: it is of its event's generation and the
\* event is no longer active
CommittedContext(e, key) ==
  /\ contexts[e][key].id = events[e][key[1]].contextId
  /\ ~(\E id \in ActiveIds(e) : activeEventDict[e][id].ctx = key)

\* a committed context has a callback that has not been started yet
FirePending(e) ==
  \E key \in DOMAIN contexts[e] :
    Registered(e, key) > 0 /\ CommittedContext(e, key) /\ Fired(e, key) = 0

\* C23: the callback registered for (endpoint, sequence) is started once
\* per completed sequence, only after the context has been committed on that
\* endpoint, only on the endpoint that registered it, and never for a
\* postponed execution
C23_OnCompleteOnce ==
  /\ [](\A e \in EP : \A key \in DOMAIN contexts[e] :
          /\ Registered(e, key) <= 1
          /\ Fired(e, key) \in {0, Registered(e, key)}
          /\ Registered(e, key) > 0 =>
               <<EndpointName(e), SequenceNameOf(events[e][key[1]].name)>>
                 \in OnCompleteDict
          /\ Fired(e, key) > 0 => CommittedContext(e, key))
  /\ \A e \in EP : FirePending(e) ~> ~FirePending(e)

\* ---------------------------------------------------------------------
\* C24: the endpoint mutex and the blocking reads
\*
\* The handlers at the grain of their _lock() .. _unlock() regions.  A
\* wrapper locks at 3301, generates and adds the event, unlocks at 3316 and
\* only then reads its returnQueue (3329); setCompleted locks at 1299 and
\* unlocks at 1316; the receiving thread and the sweep lock around their
\* work on the endpoint.  The body of an event (3333-3366) runs outside any
\* region, its read of msgReceivedQueue (3357) included.  The calls are the
\* entry points the program has (get_username, begin_session).

\* _lock (2514-2515), _unlock (2517-2518)
Lock(S, who) == [S EXCEPT !.mutex = who]
UnlockHeld(S) == S
Unlock(S) == [S EXCEPT !.mutex = Free]

CallerThread(i) == [kind |-> "caller", ev |-> i, ctx |-> <<0, 0>>]
EventThread(t) == [kind |-> "thread", ev |-> t.ev, ctx |-> t.ctx]
ReceiverThread == [kind |-> "receiver", ev |-> 0, ctx |-> <<0, 0>>]
LoaderThread == [kind |-> "loader", ev |-> 0, ctx |-> <<0, 0>>]

CallLock(e) ==
  /\ calls < MaxCalls
  /\ Callable(e) # {}
  /\ lastIdAssigned[e] + 2 <= MaxId
  /\ mutex[e] = Free
  /\ Install(e, Lock(St(e), CallerThread(Len(events[e]) + 1)))
  /\ UNCHANGED <<msgs, calls, envHolds>>

CallUnlock(e) ==
  /\ mutex[e] = CallerThread(Len(events[e]) + 1)
  /\ \E c \in Callable(e) :
       /\ Install(e, Note(Unlock(ExternalCallOp(St(e), c)),
                          [op |-> "call", ev |-> Len(events[e]) + 1, id |-> 0]))
       /\ calls' = calls + 1
  /\ UNCHANGED <<msgs, envHolds>>

CompleteLock(e) ==
  \E t \in threads[e] :
    /\ t.pc = "complete"
    /\ mutex[e] = Free
    /\ Install(e, Lock(St(e), EventThread(t)))
    /\ UNCHANGED <<msgs, calls, envHolds>>

CompleteUnlock(e) ==
  \E t \in threads[e] :
    /\ t.pc = "complete"
    /\ mutex[e] = EventThread(t)
    /\ Install(e, Unlock(SetCompleted(St(e), t)))
    /\ UNCHANGED <<msgs, calls, envHolds>>

ReceiveLock(e) ==
  /\ msgs[e] # <<>>
  /\ checkNext[e] < MaxSweeps
  /\ CreatesEvent(e, Head(msgs[e])) => lastIdAssigned[e] + 2 <= MaxId
  /\ mutex[e] = Free
  /\ Install(e, Lock(St(e), ReceiverThread))
  /\ UNCHANGED <<msgs, calls, envHolds>>

ReceiveUnlock(e) ==
  /\ mutex[e] = ReceiverThread
  /\ LET S == Unlock(MsgReceiveOp(St(e), Head(msgs[e])))
     IN /\ Install(e, Note(S, [op |-> "receive", ev |-> 0,
                               id |-> Head(msgs[e]).eventId]))
        /\ msgs' = [msgs EXCEPT ![e] = Tail(@), ![Peer(e)] = @ \o S.out]
  /\ UNCHANGED <<calls, envHolds>>

LoaderLock(e) ==
  /\ checkNext[e] > 0
  /\ lastIdAssigned[e] + 2 * Len(inactiveEvents[e]) <= MaxId
  /\ mutex[e] = Free
  /\ Install(e, Lock(St(e), LoaderThread))
  /\ UNCHANGED <<msgs, calls, envHolds>>

LoaderUnlock(e) ==
  /\ mutex[e] = LoaderThread
  /\ Install(e, Note([Unlock(CheckNextEvent(St(e))) EXCEPT !.checkNext = @ - 1],
                     [op |-> "sweep", ev |-> 0, id |-> 0]))
  /\ UNCHANGED <<msgs, calls, envHolds>>

NextLock ==
  \E e \in EP :
    \/ CallLock(e)
    \/ CallUnlock(e)
    \/ CallerReturn(e)
    \/ DoExecuteActive(e)
    \/ ExecuteInternal(e)
    \/ LocalBody(e)
    \/ SendBody(e)
    \/ SendStep(e)
    \/ WaitMessage(e)
    \/ AddUserBody(e)
    \/ CompleteLock(e)
    \/ CompleteUnlock(e)
    \/ SendRelease(e)
    \/ HandlePostpone(e)
    \/ ReceiveLock(e)
    \/ ReceiveUnlock(e)
    \/ LoaderLock(e)
    \/ LoaderUnlock(e)
    \/ EnvAcquire(e)
    \/ EnvRelease(e)

SpecLock == Init /\ [][NextLock]_vars

\* a thread suspended on its context's message-received queue, and an
\* application thread blocked on an event's return queue
Suspended(e, t) ==
  /\ t \in threads[e]
  /\ t.pc = "wait"
  /\ contexts[e][t.ctx].msgReceivedQueue = <<>>
BlockedCaller(e, i) == i \in callers[e] /\ events[e][i].returnQueue = 0

\* C24: a thread suspended on its context's message-received queue, or a
\* caller blocked on an event's return queue, does not hold the endpoint
\* mutex: whoever holds it is a thread that is inside a lock region and can
\* leave it (a wrapper that has not yet queued its event, a thread inside
\* setCompleted, the receiving thread or a sweep), so dispatch, admission
\* and postponement are never shut out by a waiting thread.
C24_BlockedWithoutMutex ==
  \A e \in EP :
    /\ \A t \in threads[e] : Suspended(e, t) => mutex[e] # EventThread(t)
    /\ \A i \in callers[e] : mutex[e] # CallerThread(i)
    /\ mutex[e].kind = "caller" => mutex[e].ev = Len(events[e]) + 1
    /\ mutex[e].kind = "thread" =>
         \E t \in threads[e] : t.pc = "complete" /\ mutex[e] = EventThread(t)

\* the receiving thread holds the mutex to dispatch a NOT_ACCEPTED for an
\* event whose thread is suspended and whose caller is blocked
C24_Witness ==
  \E t \in threads[Client] :
    /\ Suspended(Client, t)
    /\ BlockedCaller(Client, t.ev)
    /\ mutex[Client] = ReceiverThread
    /\ Head(msgs[Client]).control = NOT_ACCEPTED_SENTINEL
    /\ Head(msgs[Client]).eventId = events[Client][t.ev].id
    /\ events[Client][t.ev].contextId = t.ctx[2]

\* ---------------------------------------------------------------------
\* C25: the committed context is written by commit only

\* no event of this endpoint is committed in this step
NoCommit(e) ==
  \A k \in DOMAIN log' : ~(log'[k].op = "commit" /\ log'[k].ep = e)

\* a context of this endpoint holds a value its committed context has not
Pending(e, key) ==
  \/ \E v \in DOMAIN contexts[e][key].shareds :
       contexts[e][key].shareds[v] # committedContext[e].shareds[v]
  \/ \E v \in DOMAIN contexts[e][key].endGlobals :
       /\ contexts[e][key].endGlobals[v] # DNE_PLACE_HOLDER
       /\ contexts[e][key].endGlobals[v] # committedContext[e].endGlobals[v]

\* C25: a step that commits no event of an endpoint (an admission granted,
\* denied or forced, a postponement, a sweep, a body writing to its event's
\* context, the reception of a NOT_ACCEPTED, a SEQUENCE_FINISHED or a
\* named-step message) leaves the endpoint's committed context as it was;
\* the commit of an event makes the committed context the merge of the
\* event's context into it, so the event's writes show there at the
\* commit and not before.
C25_CommittedOnlyByCommit ==
  [][\A e \in EP :
       /\ NoCommit(e) => committedContext'[e] = committedContext[e]
       /\ \A id \in ActiveIds(e) :
            CommittedNow(e, id) =>
              committedContext'[e] =
                MergeContextIntoMe(committedContext[e],
                                   contexts'[e][activeEventDict[e][id].ctx])]_vars

\* a NOT_ACCEPTED has just postponed an event whose context holds a write
\* that the committed context does not show
C25_Witness ==
  \E k \in DOMAIN log :
    /\ log[k].op = "postpone"
    /\ \E j \in DOMAIN log : log[j].op = "receive" /\ log[j].ep = log[k].ep
    /\ \E key \in DOMAIN contexts[log[k].ep] :
         /\ key[1] = log[k].ev
         /\ Pending(log[k].ep, key)

\* ---------------------------------------------------------------------
\* C26: the hold an admitted event takes on the list its variable names

\* the event's prototype declares the external variable users
DeclaresUsers(ev) == users \in PrototypeEvent(ev.name).externalVarNames

AdmittedNow(e, i) ==
  \E k \in DOMAIN log' :
    log'[k].op = "admitted" /\ log'[k].ep = e /\ log'[k].ev = i

\* the change of an object's count that a context has pending
RefCountDelta(ctx, o) == IF o \in DOMAIN ctx.refCounts THEN ctx.refCounts[o] ELSE 0

\* the reference the wrapper of a call takes on the object passed to it
\* (incrementRefCountAddIfNoExist, before the event is generated)
Passed(e, i, o) ==
  IF events'[e][i].arg = o
     /\ \E k \in DOMAIN log' :
          log'[k].op = "call" /\ log'[k].ep = e /\ log'[k].ev = i
  THEN 1 ELSE 0

\* the admission of such an event adds one to the count of the list
HoldTaken(e, i) ==
  LET o == committedContext[e].endGlobals[users]
      key == <<i, events'[e][i].contextId>>
  IN /\ externalStore'[e][o] = externalStore[e][o] + 1 + Passed(e, i, o)
     /\ contexts'[e][key].heldExternalReferences = <<o>>

\* its commit applies the context's pending change and gives the hold back
HoldGivenBack(e, id) ==
  LET key == activeEventDict[e][id].ctx
      held == contexts[e][key].heldExternalReferences
  IN /\ Len(held) = 1
     /\ externalStore'[e][held[1]] =
          externalStore[e][held[1]] - 1 + RefCountDelta(contexts[e][key], held[1])
     /\ contexts'[e][key].heldExternalReferences = <<>>

\* admission and commit one after the other, with a change of delta pending
\* in the context: the count of the list is its value before the admission
\* plus delta
HoldRoundTrip(S, i, delta) ==
  LET o == S.committedContext.endGlobals[users]
      r == AddEventToEndpointIfCan(S, i, FALSE, FALSE)
      key == r.ctx
      S1 == [r.S EXCEPT !.contexts[key].refCounts = (o :> delta)]
      T == CommitActiveEvent(S1, i, key)
  IN (r.added /\ S.externalStore[o] + delta >= 0) =>
       /\ r.S.externalStore[o] = S.externalStore[o] + 1
       /\ T.externalStore[o] = S.externalStore[o] + delta
       /\ T.contexts[key].heldExternalReferences = <<>>
       /\ T.assertFailed = S.assertFailed

\* C26: on one endpoint, the admission of an event whose declared external
\* variables name the list users adds exactly 1 to the list's count in the
\* store, and the commit of the event leaves the count at its value before
\* the admission plus the change the context has pending for the list: the
\* hold taken at admission is given back once.
C26_HoldRoundTrip ==
  /\ [][\A e \in EP :
          /\ \A i \in DOMAIN events'[e] :
               (DeclaresUsers(events'[e][i]) /\ AdmittedNow(e, i))
                 => HoldTaken(e, i)
          /\ \A id \in ActiveIds(e) :
               (DeclaresUsers(ActiveEvent(e, id)) /\ CommittedNow(e, id))
                 => HoldGivenBack(e, id)]_vars
  /\ [](\A delta \in {0 - 1, 0, 1} :
          users \in DOMAIN committedContext[Lobby].endGlobals
            /\ committedContext[Lobby].endGlobals[users]
                 \in DOMAIN externalStore[Lobby]
            => HoldRoundTrip(Generated(Lobby, "Lobby_onCreate"),
                             Len(events[Lobby]) + 1, delta))

\* an onCreate of the Lobby, admitted with a hold on the list, has just
\* committed with a change of the list's count pending in its context
C26_Witness ==
  \E k \in DOMAIN log :
    /\ log[k].op = "commit" /\ log[k].ep = Lobby
    /\ DeclaresUsers(events[Lobby][log[k].ev])
    /\ \E key \in DOMAIN contexts[Lobby] :
         /\ key[1] = log[k].ev
         /\ contexts[Lobby][key].refCounts # EmptyFn
         /\ contexts[Lobby][key].heldExternalReferences = <<>>

\* ---------------------------------------------------------------------
\* C27: garbage collection of the external store

\* the cleanup thread of a returned call has run in this step
\* (_ExtInterfaceCleanup.run: the references of the call's arguments are
\* given back, then gcCheckEmptyRefCounts)
CleanupNow(e) ==
  \E k \in DOMAIN log' : log'[k].op = "return" /\ log'[k].ep = e

\* the reference the cleanup gives back on this object before it collects
GivenBack(e, o) ==
  IF \E k \in DOMAIN log' :
       /\ log'[k].op = "return" /\ log'[k].ep = e
       /\ events[e][log'[k].ev].name = "Lobby_onCreate"
       /\ events[e][log'[k].ev].arg = o
  THEN 1 ELSE 0

\* gcCheckEmptyRefCounts on a store: the entries with count 0 go, the
\* entries with a positive count stay with their count, nothing else changes
GcExact(S) ==
  LET T == GcCheckEmptyRefCounts(S)
  IN /\ DOMAIN T.externalStore =
          {k \in DOMAIN S.externalStore : S.externalStore[k] > 0}
     /\ \A k \in DOMAIN T.externalStore :
          T.externalStore[k] = S.externalStore[k]
     /\ T = [S EXCEPT !.externalStore = T.externalStore]

\* C27: an element leaves the external store only in a garbage collection
\* and only with reference count zero; gcCheckEmptyRefCounts removes every
\* entry whose count is 0 and keeps every entry whose count is positive, so
\* that no entry with a positive count is ever removed and none with count
\* zero is left by a collection.
C27_GarbageCollection ==
  /\ [][\A e \in EP :
          /\ \A o \in DOMAIN externalStore[e] \ DOMAIN externalStore'[e] :
               CleanupNow(e) /\ externalStore[e][o] - GivenBack(e, o) = 0
          /\ CleanupNow(e) =>
               \A o \in DOMAIN externalStore'[e] : externalStore'[e][o] > 0]_vars
  /\ [](\A e \in EP : GcExact(St(e)))

\* a collection has just removed the list whose count had reached zero and
\* kept a list that is still referenced
C27_Witness ==
  /\ \E k \in DOMAIN log : log[k].op = "return" /\ log[k].ep = Lobby
  /\ UsersObj \notin DOMAIN externalStore[Lobby]
  /\ \E o \in DOMAIN externalStore[Lobby] : externalStore[Lobby][o] > 0

\* ---------------------------------------------------------------------
\* C28: changeRefCountById

\* the changes of a count the function is called with
RefDeltas == {0 - 2, 0 - 1, 0, 1, 2}

ChangeRefCountContract(S, extId, howMuch) ==
  LET T == ChangeRefCountById(S, extId, howMuch)
  IN IF \/ extId \notin DOMAIN S.externalStore
        \/ S.externalStore[extId] + howMuch < 0
     THEN /\ T.assertFailed # S.assertFailed
          /\ T.externalStore = S.externalStore
          /\ ~T.storeLocked
     ELSE T = [S EXCEPT !.externalStore[extId] = @ + howMuch]

\* C28: changeRefCountById(endpoint, id, delta) ends in an error if the
\* object is not in the store or if its count plus delta would be negative,
\* and then the counts of the store are as before the call and the store's
\* lock is not left held; otherwise the object's count is changed by delta
\* and nothing else is.
C28_ChangeRefCount ==
  \A e \in EP : \A o \in ExtObjs : \A d \in RefDeltas :
    ChangeRefCountContract(St(e), o, d)

\* ---------------------------------------------------------------------
\* C29: the does-not-exist placeholders of a context

\* this step receives a message whose context data updateEnvironmentData
\* applies to the context of an event of this endpoint: the first request
\* of an event that is admitted, a later step, or the end of a sequence
\* this endpoint started
TakesContext(e) ==
  /\ Receives(e)
  /\ Head(msgs[e]).control \notin {NOT_ACCEPTED_SENTINEL, RELEASE_EVENT_SENTINEL}
  /\ Head(msgs[e]).eventId \in DOMAIN activeEventDict'[e]
  /\ Head(msgs[e]).control = MESSAGE_SEQUENCE_SENTINEL_FINISH
       => IInitiated(St(e), Head(msgs[e]).eventId)

\* the context the message was applied to
TakenInto(e) == contexts'[e][activeEventDict'[e][Head(msgs[e]).eventId].ctx]

\* C29: once a message of an event has been received and its context data
\* applied, the event's context on the receiving endpoint holds no
\* does-not-exist placeholder: every endpoint-global that
\* copyForActiveEvent filled with the placeholder has a real value.
C29_DoesNotExistResolved ==
  [][\A e \in EP :
       TakesContext(e) => FilterDoesNotExist(TakenInto(e).endGlobals) = {}]_vars

\* ---------------------------------------------------------------------
\* C30: endpoint-globals are not transmitted

\* the messages on their way to an endpoint
InFlight(e) == {msgs[e][k] : k \in DOMAIN msgs[e]}

\* applying a payload to a context takes nothing into its endpoint-globals
EndGlobalsKept(ctx, data) ==
  /\ UpdateEnvironmentData(ctx, data).endGlobals = ctx.endGlobals
  /\ \A k \in DOMAIN data.shareds :
       UpdateEnvironmentData(ctx, data).shareds[k] = data.shareds[k]
  /\ \A k \in DOMAIN data.seqGlobals :
       UpdateEnvironmentData(ctx, data).seqGlobals[k] = data.seqGlobals[k]

\* the endpoint-globals of the contexts of this endpoint after a reception
\* are those they had, or for the context of a newly admitted event those
\* copyForActiveEvent gave it
ReceptionKeepsEndGlobals(e) ==
  \A key \in DOMAIN contexts'[e] :
    IF key \in DOMAIN contexts[e]
    THEN contexts'[e][key].endGlobals = contexts[e][key].endGlobals
    ELSE contexts'[e][key].endGlobals =
           CopyForActiveEvent(committedContext[e], events'[e][key[1]],
                              key[2]).endGlobals

\* C30: the endGlobals part of every serialized context is empty, and
\* applying a received payload to a context adds or changes no entry of
\* the context's endGlobals: only shareds and sequence-globals are taken
\* from the payload.
C30_EndGlobalsNotSent ==
  /\ [](\A e \in EP :
          /\ \A m \in InFlight(e) : m.context.endGlobals = EmptyFn
          /\ \A key \in DOMAIN contexts[e] :
               /\ GenerateEnvironmentData(contexts[e][key]).endGlobals = EmptyFn
               /\ \A m \in InFlight(e) :
                    EndGlobalsKept(contexts[e][key], m.context))
  /\ [][\A e \in EP : Receives(e) => ReceptionKeepsEndGlobals(e)]_vars

\* the Lobby has applied the payload of the Client's request to a context
\* that holds endpoint-globals: the shared value came with the payload
C30_Witness ==
  /\ \E k \in DOMAIN log : log[k].op = "receive" /\ log[k].ep = Lobby
  /\ \E key \in DOMAIN contexts[Lobby] :
       /\ Current(Lobby, key)
       /\ users \in DOMAIN contexts[Lobby][key].endGlobals
       /\ contexts[Lobby][key].shareds[username]
            # committedContext[Lobby].shareds[username]
       /\ contexts[Lobby][key].seqGlobals # EmptyFn

\* ---------------------------------------------------------------------
\* C31: what one sweep of the inactive events leaves

\* the entries of a list that satisfy a test, in the order of the list
RECURSIVE Filter(_, _)
Filter(L, keep) ==
  IF L = <<>> THEN <<>>
  ELSE (IF Head(L) \in keep THEN <<Head(L)>> ELSE <<>>) \o Filter(Tail(L), keep)

\* the executions the sweep has dispatched for an event
Dispatched(S, T, i) == {x \in T.toExecute \ S.toExecute : x.ev = i}

SweepExact(S) ==
  LET T == CheckNextEvent(S)
      L == S.inactiveEvents
      listed == {L[k] : k \in DOMAIN L}
      admitted == {i \in listed : ~S.events[i].active /\ T.events[i].active}
  IN /\ T.inactiveEvents = Filter(L, listed \ admitted)
     /\ \A i \in admitted :
          /\ Cardinality(Dispatched(S, T, i)) = 1
          /\ \A x \in Dispatched(S, T, i) :
               x.ctx = <<i, T.events[i].contextId>>
     /\ \A i \in listed \ admitted :
          /\ Dispatched(S, T, i) = {}
          /\ ~S.events[i].active =>
               ~AddEventToEndpointIfCan(T, i, FALSE, TRUE).added

\* C31: one sweep attempts the admission, without force, of every event of
\* the inactive list in the order of the list; at its end the list holds
\* exactly the events that were not admitted, in the order they had, every
\* admitted event is off the list and has been dispatched once, and every
\* event left on the list was refused at its turn (so it cannot be admitted
\* in the state the sweep ends in).
C31_SweepExact == \A e \in EP : SweepExact(St(e))

\* ---------------------------------------------------------------------
\* C32: reception of MESSAGE_SEQUENCE_SENTINEL_FINISH

\* what of an endpoint the message is to leave alone, the contexts apart
FinishFrame(S) ==
  [activeEventDict |-> S.activeEventDict,
   inactiveEvents |-> S.inactiveEvents,
   globSharedReadVars |-> S.globSharedReadVars,
   globSharedWriteVars |-> S.globSharedWriteVars,
   committedContext |-> S.committedContext,
   events |-> S.events]

\* the variables of a context
Variables(ctx) ==
  [shareds |-> ctx.shareds, endGlobals |-> ctx.endGlobals,
   seqGlobals |-> ctx.seqGlobals]

\* on the endpoint that initiated the event: the payload is merged into the
\* event's context and the context's id is put once on its queue
FinishOnInitiator(S, m) ==
  LET T == ProcessSequenceSentinelFinished(S, m)
      key == S.activeEventDict[m.eventId].ctx
      old == S.contexts[key]
      new == T.contexts[key]
  IN /\ new.shareds = Merge(m.context.shareds, old.shareds)
     /\ new.seqGlobals = Merge(m.context.seqGlobals, old.seqGlobals)
     /\ new.endGlobals = old.endGlobals
     /\ new.msgReceivedQueue = Append(old.msgReceivedQueue, old.id)
     /\ old.id = S.events[key[1]].contextId
     /\ FinishFrame(T) = FinishFrame(S)
     /\ \A k \in DOMAIN S.contexts \ {key} : T.contexts[k] = S.contexts[k]

\* on the other endpoint: nothing but the registration of a callback
FinishOnPeer(S, m) ==
  LET T == ProcessSequenceSentinelFinished(S, m)
  IN /\ FinishFrame(T) = FinishFrame(S)
     /\ DOMAIN T.contexts = DOMAIN S.contexts
     /\ \A k \in DOMAIN S.contexts :
          /\ Variables(T.contexts[k]) = Variables(S.contexts[k])
          /\ T.contexts[k].msgReceivedQueue = S.contexts[k].msgReceivedQueue
          /\ T.contexts[k].onCompletesToFire \in
               {S.contexts[k].onCompletesToFire,
                S.contexts[k].onCompletesToFire + 1}
     /\ T.threads = S.threads /\ T.toExecute = S.toExecute
     /\ T.out = S.out

\* a sequence-finished message for an event of the peer, with a payload
FinishFromPeer(id, name, v) ==
  [control |-> MESSAGE_SEQUENCE_SENTINEL_FINISH, eventId |-> id,
   eventName |-> "begin_session", sequenceName |-> name,
   context |-> [dnes |-> {}, shareds |-> (username :> v),
                endGlobals |-> EmptyFn, seqGlobals |-> ("8__name" :> v)]]

\* C32: on the endpoint that initiated the event, a SEQUENCE_FINISHED
\* message merges the shareds and the sequence-globals of its payload into
\* the event's context and delivers one resume signal that carries the
\* context's generation; on the endpoint that did not initiate the event
\* it changes neither the active set, the inactive list, the usage
\* counters, the committed context nor the variables of any context, and
\* does no more than register a completion callback.
C32_SequenceFinished ==
  \A e \in EP :
    /\ (/\ msgs[e] # <<>>
        /\ Head(msgs[e]).control = MESSAGE_SEQUENCE_SENTINEL_FINISH
        /\ Head(msgs[e]).eventId \in ActiveIds(e)
        /\ IInitiated(St(e), Head(msgs[e]).eventId))
         => FinishOnInitiator(St(e), Head(msgs[e]))
    /\ \A id \in ActiveIds(e) : \A name \in {"BeginSession", "_refresh"} :
         \A v \in {1, 2} :
           ~IInitiated(St(e), id) =>
             FinishOnPeer(St(e), FinishFromPeer(id, name, v))

\* the Client is about to receive the end of the sequence its waiting
\* event started, while the Lobby holds that event of the peer active
C32_Witness ==
  /\ msgs[Client] # <<>>
  /\ Head(msgs[Client]).control = MESSAGE_SEQUENCE_SENTINEL_FINISH
  /\ Head(msgs[Client]).eventId \in ActiveIds(Client)
  /\ IInitiated(St(Client), Head(msgs[Client]).eventId)
  /\ WaitingOn(Client, activeEventDict[Client][Head(msgs[Client]).eventId].ctx)
  /\ Head(msgs[Client]).eventId \in ActiveIds(Lobby)

\* ---------------------------------------------------------------------
\* C33: reception of NOT_ACCEPTED

\* the endpoint after the message at the head of its connection
AfterHead(e) == MsgReceiveOp(St(e), Head(msgs[e]))

\* the event named is active: it is postponed, no other event is, and a
\* sweep is started
RefusalPostpones(S, T, id) ==
  LET i == S.activeEventDict[id].ev
  IN /\ DOMAIN T.activeEventDict = DOMAIN S.activeEventDict \ {id}
     /\ \A x \in DOMAIN T.activeEventDict :
          T.activeEventDict[x] = S.activeEventDict[x]
     /\ ~T.events[i].active
     /\ T.events[i].contextId = S.events[i].contextId + 1
     /\ \A j \in DOMAIN S.events : j # i => T.events[j] = S.events[j]
     /\ T.inactiveEvents = <<i>> \o S.inactiveEvents
     /\ T.checkNext = S.checkNext + 1

\* the event named is not active: nothing but the start of a sweep
RefusalIgnored(S, T) == T = [S EXCEPT !.checkNext = @ + 1]

\* C33: a NOT_ACCEPTED for event id X postpones X if X is in the active set
\* and then starts a retry sweep; if X is not in the active set the
\* postponement is a no-op (no other event is postponed and no generation,
\* counter or list changes) and the sweep is started all the same.
C33_NotAccepted ==
  \A e \in EP :
    (msgs[e] # <<>> /\ Head(msgs[e]).control = NOT_ACCEPTED_SENTINEL) =>
      IF Head(msgs[e]).eventId \in ActiveIds(e)
      THEN RefusalPostpones(St(e), AfterHead(e), Head(msgs[e]).eventId)
      ELSE RefusalIgnored(St(e), AfterHead(e))

\* a NOT_ACCEPTED is at the head of the connection of an endpoint that has
\* already postponed the event it names and holds another event active
C33_Witness ==
  \E e \in EP :
    /\ msgs[e] # <<>>
    /\ Head(msgs[e]).control = NOT_ACCEPTED_SENTINEL
    /\ Head(msgs[e]).eventId \notin ActiveIds(e)
    /\ ActiveIds(e) # {}
    /\ \E i \in DOMAIN events[e] :
         events[e][i].id = Head(msgs[e]).eventId /\ ~events[e][i].active

\* ---------------------------------------------------------------------
\* C34: copyForActiveEvent

\* the generation ids a context is made with
Generations == 0 .. 3

CopyExact(committed, ev, contextId) ==
  LET c == CopyForActiveEvent(committed, ev, contextId)
  IN /\ DOMAIN c.shareds \cup DOMAIN c.endGlobals = Reads(ev) \cup Writes(ev)
     /\ DOMAIN c.shareds \cap DOMAIN c.endGlobals = {}
     /\ \A k \in DOMAIN c.shareds : c.shareds[k] = committed.shareds[k]
     /\ \A k \in DOMAIN c.endGlobals :
          /\ k \notin DOMAIN committed.shareds
          /\ IF k \in DOMAIN committed.endGlobals
             THEN c.endGlobals[k] = committed.endGlobals[k]
             ELSE c.endGlobals[k] = DNE_PLACE_HOLDER
     /\ \A k \in Reads(ev) \cup Writes(ev) :
          k \in DOMAIN committed.shareds => k \in DOMAIN c.shareds
     /\ c.id = contextId
     /\ ~c.messageSent
     /\ c.writtenToExternalsOnThisEndpoint = {}
     /\ c.refCounts = EmptyFn
     /\ c.onCompletesToFire = 0
     /\ c.msgReceivedQueue = <<>>

\* C34: the context copyForActiveEvent makes for an event holds exactly
\* the variables of the event's read and write footprints, each in one of
\* shareds and endGlobals; a variable the committed context holds carries
\* the committed value, a variable it does not hold is an endGlobals entry
\* with the does-not-exist placeholder; the context has the generation id
\* it was made with, and no message sent, no written external, no pending
\* reference-count change and no completion callback.  The context an
\* admission registers has the generation the admission gave the event.
C34_CopyForActiveEvent ==
  /\ [](\A e \in EP : \A g \in Generations :
          /\ \A i \in DOMAIN events[e] :
               CopyExact(committedContext[e], events[e][i], g)
          /\ \A name \in PrototypesOf(e) :
               CopyExact(committedContext[e],
                         Generated(e, name).events[Len(events[e]) + 1], g))
  /\ [][\A e \in EP : \A i \in DOMAIN events'[e] :
          AdmittedNow(e, i) =>
            LET key == activeEventDict'[e][events'[e][i].id].ctx
            IN /\ key = <<i, events'[e][i].contextId>>
               /\ contexts'[e][key].id = events'[e][i].contextId
               /\ DOMAIN contexts'[e][key].shareds
                    \cup DOMAIN contexts'[e][key].endGlobals
                    = Footprint(events'[e][i])]_vars

\* a context has been copied for an event of the Client whose footprint
\* names a variable of the Lobby, from a committed context changed by an
\* earlier commit
C34_Witness ==
  \E key \in DOMAIN contexts[Client] :
    /\ Current(Client, key)
    /\ users \in DOMAIN contexts[Client][key].endGlobals
    /\ username \in DOMAIN contexts[Client][key].shareds
    /\ committedContext[Client].shareds[username] # EmptyString
    /\ key[1] > 1

\* ---------------------------------------------------------------------
\* C35: the usage counters count the active events

\* the active events of an endpoint state whose footprint of this kind
\* holds the variable
Readers(S, v) ==
  {id \in DOMAIN S.activeEventDict :
     v \in Reads(S.events[S.activeEventDict[id].ev])}
Writers(S, v) ==
  {id \in DOMAIN S.activeEventDict :
     v \in Writes(S.events[S.activeEventDict[id].ev])}

CountersMatch(S) ==
  /\ \A v \in DOMAIN S.globSharedReadVars :
       /\ S.globSharedReadVars[v] = Cardinality(Readers(S, v))
       /\ S.globSharedReadVars[v] >= 0
  /\ \A v \in DOMAIN S.globSharedWriteVars :
       /\ S.globSharedWriteVars[v] = Cardinality(Writers(S, v))
       /\ S.globSharedWriteVars[v] >= 0

\* cancelling an active event takes exactly its own increments back
CancelReverses(S, id) ==
  LET i == S.activeEventDict[id].ev
      T == CancelActiveEvent(S, i)
  IN /\ CountersMatch(T)
     /\ \A v \in DOMAIN S.globSharedReadVars :
          T.globSharedReadVars[v] = S.globSharedReadVars[v]
            - (IF v \in Reads(S.events[i]) THEN 1 ELSE 0)
     /\ \A v \in DOMAIN S.globSharedWriteVars :
          T.globSharedWriteVars[v] = S.globSharedWriteVars[v]
            - (IF v \in Writes(S.events[i]) THEN 1 ELSE 0)

\* C35: in every reachable state, for every variable an endpoint tracks,
\* the read counter is the number of active events whose read footprint
\* holds the variable and the write counter the number of active events
\* whose write footprint holds it; no counter is negative, and cancelling
\* an active event reverses exactly the increments of its admission.
C35_UsageCounters ==
  \A e \in EP :
    /\ CountersMatch(St(e))
    /\ \A id \in ActiveIds(e) : CancelReverses(St(e), id)

\* an event has just committed on an endpoint where another event is
\* active and counted as the writer of a variable
C35_Witness ==
  \E e \in EP :
    /\ \E v \in DOMAIN globSharedWriteVars[e] : globSharedWriteVars[e][v] >= 1
    /\ ActiveIds(e) # {}
    /\ \E k \in DOMAIN log : log[k].op = "commit" /\ log[k].ep = e

\* ---------------------------------------------------------------------
\* C36: the generations of an event's contexts

\* the generation the event had before this step (0 for an event the step
\* creates)
GenerationBefore(e, i) ==
  IF i \in DOMAIN events[e] THEN events[e][i].contextId ELSE 0

PostponedNow(e, i) ==
  \E k \in DOMAIN log' :
    log'[k].op = "postpone" /\ log'[k].ep = e /\ log'[k].ev = i

\* C36: the generation of an event never decreases and is never the
\* invalid id; every admission and every postponement increases it, so a
\* context made for an event has a generation no earlier context of the
\* event had; and the context registered for an active event has the
\* generation the event has now.
C36_Generations ==
  /\ [][\A e \in EP : \A i \in DOMAIN events'[e] :
          /\ events'[e][i].contextId >= GenerationBefore(e, i)
          /\ AdmittedNow(e, i) => events'[e][i].contextId > GenerationBefore(e, i)
          /\ PostponedNow(e, i) => events'[e][i].contextId > GenerationBefore(e, i)
          /\ \A key \in DOMAIN contexts'[e] \ DOMAIN contexts[e] :
               key[1] = i =>
                 /\ key[2] > GenerationBefore(e, i)
                 /\ \A old \in DOMAIN contexts[e] :
                      old[1] = i => contexts[e][old].id < contexts'[e][key].id]_vars
  /\ [](\A e \in EP :
          /\ \A i \in DOMAIN events[e] :
               events[e][i].contextId # INVALID_CONTEXT_ID
          /\ \A key \in DOMAIN contexts[e] : contexts[e][key].id = key[2]
          /\ \A id \in ActiveIds(e) :
               /\ activeEventDict[e][id].ctx[1] = activeEventDict[e][id].ev
               /\ contexts[e][activeEventDict[e][id].ctx].id
                    = ActiveEvent(e, id).contextId)

\* an event that was admitted, postponed and admitted again is active with
\* its third generation while the context of its first one still exists
C36_Witness ==
  \E e \in EP : \E id \in ActiveIds(e) :
    /\ ActiveEvent(e, id).contextId >= 3
    /\ <<activeEventDict[e][id].ev, 1>> \in DOMAIN contexts[e]

\* ---------------------------------------------------------------------
\* C37: the fail-fast assertions of the reception

\* the assertions on a RELEASE for an event that is not active (2100-2107),
\* on a SEQUENCE_FINISHED for an event of this endpoint that is not active
\* (2186-2195) and on a named step for an unknown event with an id of this
\* endpoint (2426-2434)
ProtocolAssertions ==
  {"_processReleaseEventSentinel", "_processSequenceSentinelFinished",
   "_msgReceive: I initiated"}

\* C37: between the two endpoints no protocol violation is reachable: a
\* RELEASE for id X finds X in the receiver's active set, a
\* SEQUENCE_FINISHED for an id the receiver initiated finds the event
\* active, and a named-step message for an id that is not active never
\* carries an id the receiver initiated; none of the fail-fast assertions
\* fires.
C37_NoProtocolViolation ==
  \A e \in EP :
    /\ assertFailed[e] \cap ProtocolAssertions = {}
    /\ msgs[e] # <<>> =>
         LET m == Head(msgs[e])
         IN /\ m.control = RELEASE_EVENT_SENTINEL => m.eventId \in ActiveIds(e)
            /\ (m.control = MESSAGE_SEQUENCE_SENTINEL_FINISH
                  /\ IInitiated(St(e), m.eventId)) => m.eventId \in ActiveIds(e)
            /\ (m.control \notin {NOT_ACCEPTED_SENTINEL, RELEASE_EVENT_SENTINEL,
                                  MESSAGE_SEQUENCE_SENTINEL_FINISH}
                  /\ m.eventId \notin ActiveIds(e)) => ~IInitiated(St(e), m.eventId)

\* ---- balance of the object-level locks
\* the locks on o taken by the events of e, without those of other users
EventLocks(e, o) ==
  [r |-> reservations[e][o].r,
   w |-> reservations[e][o].w - (IF o \in envHolds[e] THEN 1 ELSE 0)]

\* the context's event acquired a lock on o at its admission
Acquired(e, key, o) ==
  o \in events[e][key[1]].extsToRead \cup events[e][key[1]].extsToWrite

\* a release is still to come for the context: its event is active with it
\* and will commit, or an execution of it is yet to unwind
ReleaseOwed(e, key) == Current(e, key) \/ Executing(e, key)

\* nothing is active, scheduled, running or waiting for a retry on e
AllCommitted(e) ==
  /\ ActiveIds(e) = {}
  /\ threads[e] = {}
  /\ toExecute[e] = {}
  /\ inactiveEvents[e] = <<>>

AttemptedNow(e, i) ==
  /\ \E k \in DOMAIN log' : log'[k].op = "sweep" /\ log'[k].ep = e
  /\ \E k \in DOMAIN log' :
       /\ log'[k].op \in {"admitted", "denied"}
       /\ log'[k].ep = e /\ log'[k].ev = i

\* the ids that have been assigned, or are carried by an event or a message
EverCarried ==
  IdsAssigned(Client) \cup IdsAssigned(Lobby)
    \cup IdsInUse(Client) \cup IdsInUse(Lobby)

\* the ids no event of e carries any more: those of the earlier attempts of
\* its events are among them
EarlierIds(e) ==
  {x \in EverCarried : \A i \in DOMAIN events[e] : events[e][i].id # x}

RefersToEarlier(e, m) ==
  /\ m.control \in {NOT_ACCEPTED_SENTINEL, MESSAGE_SEQUENCE_SENTINEL_FINISH,
                    RELEASE_EVENT_SENTINEL}
  /\ m.eventId \in EarlierIds(e)

\* the reception has postponed, resumed and committed nothing
NoAttemptTouched(S, T) ==
  /\ T.activeEventDict = S.activeEventDict
  /\ T.inactiveEvents = S.inactiveEvents
  /\ T.events = S.events
  /\ T.contexts = S.contexts
  /\ T.committedContext = S.committedContext
  /\ T.toExecute = S.toExecute

FreshId(e, i) ==
  /\ events'[e][i].id > events[e][i].id
  /\ events'[e][i].id \notin EverCarried
  /\ \A j \in DOMAIN events'[e] : j # i => events'[e][j].id # events'[e][i].id
  /\ \A j \in DOMAIN events'[Peer(e)] :
       events'[Peer(e)][j].id # events'[e][i].id

\* C39: every admission attempt of the retry sweep gives the event an id
\* above its earlier one that no event or message of either endpoint has
\* carried; the id of an event never decreases; and a NOT_ACCEPTED, a
\* SEQUENCE_FINISHED or a RELEASE that names the id of an earlier attempt
\* postpones, resumes and commits nothing
C39_FreshIdPerRetry ==
  /\ [](\A e \in EP :
          /\ \A x \in EarlierIds(e) :
               NoAttemptTouched(St(e),
                                MsgReceiveOp(St(e), EventNotAcceptedMsg(x)))
          /\ (msgs[e] # <<>> /\ RefersToEarlier(e, Head(msgs[e]))) =>
               NoAttemptTouched(St(e), AfterHead(e)))
  /\ [][\A e \in EP : \A i \in DOMAIN events[e] :
          /\ events'[e][i].id >= events[e][i].id
          /\ AttemptedNow(e, i) => FreshId(e, i)]_vars

\* the only event the endpoint has initiated is active in a later attempt,
\* under a new id, and a message naming an id the endpoint once assigned
\* and no event carries any more is next on the connection
C39_Witness ==
  \E e \in EP :
    /\ msgs[e] # <<>>
    /\ RefersToEarlier(e, Head(msgs[e]))
    /\ IInitiated(St(e), Head(msgs[e]).eventId)
    /\ \E i \in DOMAIN events[e] :
         /\ events[e][i].active
         /\ events[e][i].contextId >= 3
         /\ events[e][i].id > Head(msgs[e]).eventId
         /\ IInitiated(St(e), events[e][i].id)
         /\ \A j \in DOMAIN events[e] :
              j # i => ~IInitiated(St(e), events[e][j].id)
====
